---- MODULE Spec2Model ----
(***************************************************************************)
(* The tap-and-drag state machine of the touchpad stack                    *)
(* (src/src/evdev-mt-touchpad-tap.c).                                      *)
(*                                                                         *)
(* Times are counted in units of 10 ms.  The record tp models struct       *)
(* tp_dispatch: the fields of tp->tap, the touch slots and the device      *)
(* flags the tap code reads.  Two fields record what an operation does     *)
(* while it runs: out is the sequence of its calls to                      *)
(* evdev_pointer_notify_button and log the sequence of its calls to        *)
(* tp_tap_handle_event, those that leave the state unchanged included.     *)
(* Both are empty between operations.                                      *)
(***************************************************************************)
EXTENDS Integers, Sequences, FiniteSets, TLC

\* tp        the dispatch
\* now       the clock
\* held      for each finger count, the button of the press the receiver of the
\*           button events has seen without its release, "none" without one
\* inflight  the touches that were active when tapping was last enabled or
\*           tp_release_all_taps last ran, and have not ended since
\* bench     which device is driven, and with which calls
\* removed   the device has been removed: tp_remove_tap has run
VARIABLES tp, now, held, inflight, bench, removed

vars == <<tp, now, held, inflight, bench, removed>>

\* The clock stops after MaxClock quanta.
MaxClock == 1

\* ms2us(180) and ms2us(300), in units of 10 ms.
DEFAULT_TAP_TIMEOUT_PERIOD == 18
DEFAULT_DRAG_TIMEOUT_PERIOD == 30

\* The clock advances in steps of one drag timeout, the longer of the two periods.
Quantum == DEFAULT_DRAG_TIMEOUT_PERIOD

\* The touch slots; a device uses the first tp->ntouches of them.
Slots == 1..3

\* enum libinput_config_tap_button_map
LIBINPUT_CONFIG_TAP_MAP_LRM == 0
LIBINPUT_CONFIG_TAP_MAP_LMR == 1

TapStates ==
    {"TAP_STATE_IDLE", "TAP_STATE_HOLD", "TAP_STATE_TOUCH", "TAP_STATE_TAPPED",
     "TAP_STATE_TOUCH_2", "TAP_STATE_TOUCH_2_HOLD", "TAP_STATE_TOUCH_2_RELEASE",
     "TAP_STATE_TOUCH_3", "TAP_STATE_TOUCH_3_HOLD", "TAP_STATE_DRAGGING",
     "TAP_STATE_DRAGGING_WAIT", "TAP_STATE_DRAGGING_OR_DOUBLETAP",
     "TAP_STATE_DRAGGING_OR_TAP", "TAP_STATE_DRAGGING_2", "TAP_STATE_DEAD"}

TapEvents ==
    {"TAP_EVENT_TOUCH", "TAP_EVENT_MOTION", "TAP_EVENT_RELEASE", "TAP_EVENT_BUTTON",
     "TAP_EVENT_TIMEOUT", "TAP_EVENT_THUMB", "TAP_EVENT_PALM", "TAP_EVENT_PALM_UP"}

\* int32_t button_map[2][3] of tp_tap_notify
button_map ==
    << <<"BTN_LEFT", "BTN_RIGHT", "BTN_MIDDLE">>,
       <<"BTN_LEFT", "BTN_MIDDLE", "BTN_RIGHT">> >>

\* 1 << n
Bit(n) == 2 ^ n

\* mask & (1 << n)
BitIsSet(mask, n) == (mask \div Bit(n)) % 2 = 1

\* mask |= (1 << n)
BitOr(mask, n) == IF BitIsSet(mask, n) THEN mask ELSE mask + Bit(n)

\* mask &= ~(1 << n)
BitClear(mask, n) == IF BitIsSet(mask, n) THEN mask - Bit(n) ELSE mask

tp_tap_notify(d, time, nfingers, state) ==
    IF nfingers > 3
    THEN d
    ELSE [d EXCEPT
            !.buttons_pressed =
                IF state = "PRESSED" THEN BitOr(@, nfingers) ELSE BitClear(@, nfingers),
            !.out = Append(@, [time |-> time,
                               button |-> button_map[d.map + 1][nfingers],
                               state |-> state,
                               nfingers |-> nfingers])]

tp_tap_set_timer_long(d, time) ==
    [d EXCEPT !.timer = <<time + DEFAULT_DRAG_TIMEOUT_PERIOD>>]

\* The timer is <<>> when it is not armed and <<deadline>> when it is.
tp_tap_set_timer(d, time) ==
    [d EXCEPT !.timer = <<time + DEFAULT_TAP_TIMEOUT_PERIOD>>]

tp_tap_set_drag_timer_short(d, time) ==
    [d EXCEPT !.timer = <<time + DEFAULT_TAP_TIMEOUT_PERIOD>>]

tp_tap_set_drag_timer(d, time) ==
    [d EXCEPT !.timer = <<time + DEFAULT_DRAG_TIMEOUT_PERIOD>>]

tp_tap_clear_timer_keep(d) == d

tp_tap_clear_timer(d) == [d EXCEPT !.timer = <<>>]

SetState(d, s) == [d EXCEPT !.state = s]

SetTouchTapState(d, t, s) == [d EXCEPT !.touches[t].tap_state = s]

tp_tap_move_to_dead(d, t) ==
    tp_tap_clear_timer(
        SetTouchTapState(SetState(d, "TAP_STATE_DEAD"), t, "TAP_TOUCH_STATE_DEAD"))

tp_tap_idle_handle_event(d, t, event, time) ==
    CASE event = "TAP_EVENT_TOUCH" ->
            tp_tap_set_timer(
                [d EXCEPT !.state = "TAP_STATE_TOUCH", !.saved_press_time = time], time)
      [] event = "TAP_EVENT_BUTTON" -> SetState(d, "TAP_STATE_DEAD")
      [] event = "TAP_EVENT_PALM" -> SetState(d, "TAP_STATE_IDLE")
      [] OTHER -> d

OneFingerTapAlwaysDrags(d, time) ==
    LET pressed == tp_tap_notify(d, d.saved_press_time, 1, "PRESSED")
    IN  tp_tap_set_timer(
            [pressed EXCEPT !.state = "TAP_STATE_TAPPED",
                            !.saved_release_time = time], time)

\* TAP_EVENT_RELEASE in TOUCH and TAP_EVENT_PALM in TOUCH_2_RELEASE: a one-finger tap.
OneFingerTap(d, time) ==
    LET pressed == tp_tap_notify(d, d.saved_press_time, 1, "PRESSED")
    IN  IF d.drag_enabled
        THEN tp_tap_set_timer(
                [pressed EXCEPT !.state = "TAP_STATE_TAPPED",
                                !.saved_release_time = time], time)
        ELSE SetState(tp_tap_notify(pressed, time, 1, "RELEASED"), "TAP_STATE_IDLE")

\* TAP_EVENT_THUMB in TOUCH and in HOLD.
ThumbToIdle(d, t) ==
    [d EXCEPT !.state = "TAP_STATE_IDLE",
              !.touches[t].is_thumb = TRUE,
              !.nfingers_down = @ - 1,
              !.touches[t].tap_state = "TAP_TOUCH_STATE_DEAD"]

tp_tap_touch_handle_event_keep_press_time(d, t, event, time) ==
    CASE event = "TAP_EVENT_TOUCH" ->
            tp_tap_set_timer(SetState(d, "TAP_STATE_TOUCH_2"), time)
      [] event = "TAP_EVENT_RELEASE" -> OneFingerTap(d, time)
      [] event = "TAP_EVENT_MOTION" -> tp_tap_move_to_dead(d, t)
      [] event = "TAP_EVENT_TIMEOUT" -> tp_tap_clear_timer(SetState(d, "TAP_STATE_HOLD"))
      [] event = "TAP_EVENT_BUTTON" -> SetState(d, "TAP_STATE_DEAD")
      [] event = "TAP_EVENT_THUMB" -> tp_tap_clear_timer(ThumbToIdle(d, t))
      [] event = "TAP_EVENT_PALM" -> tp_tap_clear_timer(SetState(d, "TAP_STATE_IDLE"))
      [] OTHER -> d

tp_tap_touch_handle_event(d, t, event, time) ==
    CASE event = "TAP_EVENT_TOUCH" ->
            tp_tap_set_timer(
                [d EXCEPT !.state = "TAP_STATE_TOUCH_2", !.saved_press_time = time], time)
      [] event = "TAP_EVENT_RELEASE" -> OneFingerTap(d, time)
      [] event = "TAP_EVENT_MOTION" -> tp_tap_move_to_dead(d, t)
      [] event = "TAP_EVENT_TIMEOUT" -> tp_tap_clear_timer(SetState(d, "TAP_STATE_HOLD"))
      [] event = "TAP_EVENT_BUTTON" -> SetState(d, "TAP_STATE_DEAD")
      [] event = "TAP_EVENT_THUMB" -> tp_tap_clear_timer(ThumbToIdle(d, t))
      [] event = "TAP_EVENT_PALM" -> tp_tap_clear_timer(SetState(d, "TAP_STATE_IDLE"))
      [] OTHER -> d

tp_tap_hold_handle_event(d, t, event, time) ==
    CASE event = "TAP_EVENT_TOUCH" ->
            tp_tap_set_timer(
                [d EXCEPT !.state = "TAP_STATE_TOUCH_2", !.saved_press_time = time], time)
      [] event = "TAP_EVENT_RELEASE" -> SetState(d, "TAP_STATE_IDLE")
      [] event = "TAP_EVENT_MOTION" -> tp_tap_move_to_dead(d, t)
      [] event = "TAP_EVENT_BUTTON" -> SetState(d, "TAP_STATE_DEAD")
      [] event = "TAP_EVENT_THUMB" -> ThumbToIdle(d, t)
      [] event = "TAP_EVENT_PALM" -> SetState(d, "TAP_STATE_IDLE")
      [] OTHER -> d

tp_tap_tapped_handle_event_release_now(d, t, event, time) ==
    CASE event = "TAP_EVENT_TOUCH" ->
            tp_tap_set_timer(
                [d EXCEPT !.state = "TAP_STATE_DRAGGING_OR_DOUBLETAP",
                          !.saved_press_time = time], time)
      [] event = "TAP_EVENT_TIMEOUT" ->
            tp_tap_notify(SetState(d, "TAP_STATE_IDLE"), time, 1, "RELEASED")
      [] event = "TAP_EVENT_BUTTON" ->
            tp_tap_notify(SetState(d, "TAP_STATE_DEAD"),
                          d.saved_release_time, 1, "RELEASED")
      [] OTHER -> d

tp_tap_tapped_handle_event(d, t, event, time) ==
    CASE event = "TAP_EVENT_TOUCH" ->
            tp_tap_set_timer(
                [d EXCEPT !.state = "TAP_STATE_DRAGGING_OR_DOUBLETAP",
                          !.saved_press_time = time], time)
      [] event = "TAP_EVENT_TIMEOUT" ->
            tp_tap_notify(SetState(d, "TAP_STATE_IDLE"),
                          d.saved_release_time, 1, "RELEASED")
      [] event = "TAP_EVENT_BUTTON" ->
            tp_tap_notify(SetState(d, "TAP_STATE_DEAD"),
                          d.saved_release_time, 1, "RELEASED")
      [] OTHER -> d

tp_tap_touch2_handle_event(d, t, event, time) ==
    CASE event = "TAP_EVENT_TOUCH" ->
            tp_tap_set_timer(
                [d EXCEPT !.state = "TAP_STATE_TOUCH_3", !.saved_press_time = time], time)
      [] event = "TAP_EVENT_RELEASE" ->
            tp_tap_set_timer(
                [d EXCEPT !.state = "TAP_STATE_TOUCH_2_RELEASE",
                          !.saved_release_time = time], time)
      [] event = "TAP_EVENT_MOTION" -> tp_tap_move_to_dead(d, t)
      [] event = "TAP_EVENT_TIMEOUT" -> SetState(d, "TAP_STATE_TOUCH_2_HOLD")
      [] event = "TAP_EVENT_BUTTON" -> SetState(d, "TAP_STATE_DEAD")
      [] event = "TAP_EVENT_PALM" -> tp_tap_set_timer(SetState(d, "TAP_STATE_TOUCH"), time)
      [] OTHER -> d

tp_tap_touch2_hold_handle_event_to_touch(d, t, event, time) ==
    CASE event = "TAP_EVENT_TOUCH" ->
            tp_tap_set_timer(
                [d EXCEPT !.state = "TAP_STATE_TOUCH_3", !.saved_press_time = time], time)
      [] event = "TAP_EVENT_RELEASE" -> SetState(d, "TAP_STATE_TOUCH")
      [] event = "TAP_EVENT_MOTION" -> tp_tap_move_to_dead(d, t)
      [] event = "TAP_EVENT_TIMEOUT" -> SetState(d, "TAP_STATE_TOUCH_2_HOLD")
      [] event = "TAP_EVENT_BUTTON" -> SetState(d, "TAP_STATE_DEAD")
      [] event = "TAP_EVENT_PALM" -> SetState(d, "TAP_STATE_HOLD")
      [] OTHER -> d

tp_tap_touch2_hold_handle_event(d, t, event, time) ==
    CASE event = "TAP_EVENT_TOUCH" ->
            tp_tap_set_timer(
                [d EXCEPT !.state = "TAP_STATE_TOUCH_3", !.saved_press_time = time], time)
      [] event = "TAP_EVENT_RELEASE" -> SetState(d, "TAP_STATE_HOLD")
      [] event = "TAP_EVENT_MOTION" -> tp_tap_move_to_dead(d, t)
      [] event = "TAP_EVENT_TIMEOUT" -> SetState(d, "TAP_STATE_TOUCH_2_HOLD")
      [] event = "TAP_EVENT_BUTTON" -> SetState(d, "TAP_STATE_DEAD")
      [] event = "TAP_EVENT_PALM" -> SetState(d, "TAP_STATE_HOLD")
      [] OTHER -> d

tp_tap_touch2_release_handle_event(d, t, event, time) ==
    CASE event = "TAP_EVENT_TOUCH" ->
            tp_tap_clear_timer(
                SetTouchTapState(SetState(d, "TAP_STATE_TOUCH_2_HOLD"),
                                 t, "TAP_TOUCH_STATE_DEAD"))
      [] event = "TAP_EVENT_RELEASE" ->
            SetState(
                tp_tap_notify(tp_tap_notify(d, d.saved_press_time, 2, "PRESSED"),
                              d.saved_release_time, 2, "RELEASED"),
                "TAP_STATE_IDLE")
      [] event = "TAP_EVENT_MOTION" -> tp_tap_move_to_dead(d, t)
      [] event = "TAP_EVENT_TIMEOUT" -> SetState(d, "TAP_STATE_HOLD")
      [] event = "TAP_EVENT_BUTTON" -> SetState(d, "TAP_STATE_DEAD")
      [] event = "TAP_EVENT_PALM" -> OneFingerTap(d, time)
      [] OTHER -> d

tp_tap_touch3_handle_event_always_taps(d, t, event, time) ==
    CASE event = "TAP_EVENT_TOUCH" -> tp_tap_clear_timer(SetState(d, "TAP_STATE_DEAD"))
      [] event = "TAP_EVENT_MOTION" -> tp_tap_move_to_dead(d, t)
      [] event = "TAP_EVENT_TIMEOUT" ->
            tp_tap_clear_timer(SetState(d, "TAP_STATE_TOUCH_3_HOLD"))
      [] event = "TAP_EVENT_RELEASE" ->
            tp_tap_notify(tp_tap_notify(SetState(d, "TAP_STATE_TOUCH_2_HOLD"),
                                        d.saved_press_time, 3, "PRESSED"),
                          time, 3, "RELEASED")
      [] event = "TAP_EVENT_BUTTON" -> SetState(d, "TAP_STATE_DEAD")
      [] event = "TAP_EVENT_PALM" -> SetState(d, "TAP_STATE_TOUCH_2")
      [] OTHER -> d

tp_tap_touch3_handle_event(d, t, event, time) ==
    CASE event = "TAP_EVENT_TOUCH" -> tp_tap_clear_timer(SetState(d, "TAP_STATE_DEAD"))
      [] event = "TAP_EVENT_MOTION" -> tp_tap_move_to_dead(d, t)
      [] event = "TAP_EVENT_TIMEOUT" ->
            tp_tap_clear_timer(SetState(d, "TAP_STATE_TOUCH_3_HOLD"))
      [] event = "TAP_EVENT_RELEASE" ->
            LET s == SetState(d, "TAP_STATE_TOUCH_2_HOLD")
            IN  IF d.touches[t].tap_state = "TAP_TOUCH_STATE_TOUCH"
                THEN tp_tap_notify(tp_tap_notify(s, d.saved_press_time, 3, "PRESSED"),
                                   time, 3, "RELEASED")
                ELSE s
      [] event = "TAP_EVENT_BUTTON" -> SetState(d, "TAP_STATE_DEAD")
      [] event = "TAP_EVENT_PALM" -> SetState(d, "TAP_STATE_TOUCH_2")
      [] OTHER -> d

tp_tap_touch3_hold_handle_event(d, t, event, time) ==
    CASE event = "TAP_EVENT_TOUCH" -> tp_tap_set_timer(SetState(d, "TAP_STATE_DEAD"), time)
      [] event = "TAP_EVENT_RELEASE" -> SetState(d, "TAP_STATE_TOUCH_2_HOLD")
      [] event = "TAP_EVENT_MOTION" -> tp_tap_move_to_dead(d, t)
      [] event = "TAP_EVENT_BUTTON" -> SetState(d, "TAP_STATE_DEAD")
      [] event = "TAP_EVENT_PALM" -> SetState(d, "TAP_STATE_TOUCH_2_HOLD")
      [] OTHER -> d

tp_tap_dragging_or_doubletap_handle_event_keep_release_time(d, t, event, time) ==
    CASE event = "TAP_EVENT_TOUCH" -> SetState(d, "TAP_STATE_DRAGGING_2")
      [] event = "TAP_EVENT_RELEASE" ->
            LET released == tp_tap_notify(SetState(d, "TAP_STATE_TAPPED"),
                                          d.saved_release_time, 1, "RELEASED")
                pressed == tp_tap_notify(released, d.saved_press_time, 1, "PRESSED")
            IN  tp_tap_set_timer(pressed, time)
      [] event \in {"TAP_EVENT_MOTION", "TAP_EVENT_TIMEOUT"} ->
            SetState(d, "TAP_STATE_DRAGGING")
      [] event = "TAP_EVENT_BUTTON" ->
            tp_tap_notify(SetState(d, "TAP_STATE_DEAD"),
                          d.saved_release_time, 1, "RELEASED")
      [] event = "TAP_EVENT_PALM" -> SetState(d, "TAP_STATE_TAPPED")
      [] OTHER -> d

tp_tap_dragging_or_doubletap_handle_event(d, t, event, time) ==
    CASE event = "TAP_EVENT_TOUCH" -> SetState(d, "TAP_STATE_DRAGGING_2")
      [] event = "TAP_EVENT_RELEASE" ->
            LET released == tp_tap_notify(SetState(d, "TAP_STATE_TAPPED"),
                                          d.saved_release_time, 1, "RELEASED")
                pressed == tp_tap_notify(released, d.saved_press_time, 1, "PRESSED")
            IN  tp_tap_set_timer([pressed EXCEPT !.saved_release_time = time], time)
      [] event \in {"TAP_EVENT_MOTION", "TAP_EVENT_TIMEOUT"} ->
            SetState(d, "TAP_STATE_DRAGGING")
      [] event = "TAP_EVENT_BUTTON" ->
            tp_tap_notify(SetState(d, "TAP_STATE_DEAD"),
                          d.saved_release_time, 1, "RELEASED")
      [] event = "TAP_EVENT_PALM" -> SetState(d, "TAP_STATE_TAPPED")
      [] OTHER -> d

tp_tap_dragging_handle_event_saved_time(d, t, event, time) ==
    CASE event = "TAP_EVENT_TOUCH" -> SetState(d, "TAP_STATE_DRAGGING_2")
      [] event = "TAP_EVENT_RELEASE" ->
            IF d.drag_lock_enabled
            THEN tp_tap_set_drag_timer(SetState(d, "TAP_STATE_DRAGGING_WAIT"), time)
            ELSE SetState(tp_tap_notify(d, d.saved_release_time, 1, "RELEASED"),
                          "TAP_STATE_IDLE")
      [] event = "TAP_EVENT_BUTTON" ->
            tp_tap_notify(SetState(d, "TAP_STATE_DEAD"), time, 1, "RELEASED")
      [] event = "TAP_EVENT_PALM" ->
            SetState(tp_tap_notify(d, d.saved_release_time, 1, "RELEASED"),
                     "TAP_STATE_IDLE")
      [] OTHER -> d

tp_tap_dragging_handle_event(d, t, event, time) ==
    CASE event = "TAP_EVENT_TOUCH" -> SetState(d, "TAP_STATE_DRAGGING_2")
      [] event = "TAP_EVENT_RELEASE" ->
            IF d.drag_lock_enabled
            THEN tp_tap_set_drag_timer(SetState(d, "TAP_STATE_DRAGGING_WAIT"), time)
            ELSE SetState(tp_tap_notify(d, time, 1, "RELEASED"), "TAP_STATE_IDLE")
      [] event = "TAP_EVENT_BUTTON" ->
            tp_tap_notify(SetState(d, "TAP_STATE_DEAD"), time, 1, "RELEASED")
      [] event = "TAP_EVENT_PALM" ->
            SetState(tp_tap_notify(d, d.saved_release_time, 1, "RELEASED"),
                     "TAP_STATE_IDLE")
      [] OTHER -> d

tp_tap_dragging_wait_handle_event(d, t, event, time) ==
    CASE event = "TAP_EVENT_TOUCH" ->
            tp_tap_set_timer(SetState(d, "TAP_STATE_DRAGGING_OR_TAP"), time)
      [] event = "TAP_EVENT_TIMEOUT" ->
            tp_tap_notify(SetState(d, "TAP_STATE_IDLE"), time, 1, "RELEASED")
      [] event = "TAP_EVENT_BUTTON" ->
            tp_tap_notify(SetState(d, "TAP_STATE_DEAD"), time, 1, "RELEASED")
      [] OTHER -> d

tp_tap_dragging_tap_handle_event(d, t, event, time) ==
    CASE event = "TAP_EVENT_TOUCH" ->
            tp_tap_clear_timer(SetState(d, "TAP_STATE_DRAGGING_2"))
      [] event = "TAP_EVENT_RELEASE" ->
            tp_tap_notify(SetState(d, "TAP_STATE_IDLE"), time, 1, "RELEASED")
      [] event \in {"TAP_EVENT_MOTION", "TAP_EVENT_TIMEOUT"} ->
            SetState(d, "TAP_STATE_DRAGGING")
      [] event = "TAP_EVENT_BUTTON" ->
            tp_tap_notify(SetState(d, "TAP_STATE_DEAD"), time, 1, "RELEASED")
      [] event = "TAP_EVENT_PALM" ->
            SetState(tp_tap_notify(d, d.saved_release_time, 1, "RELEASED"),
                     "TAP_STATE_IDLE")
      [] OTHER -> d

tp_tap_dragging2_handle_event_keep_button(d, t, event, time) ==
    CASE event = "TAP_EVENT_RELEASE" -> SetState(d, "TAP_STATE_DRAGGING")
      [] event = "TAP_EVENT_TOUCH" -> SetState(d, "TAP_STATE_DEAD")
      [] event = "TAP_EVENT_BUTTON" ->
            tp_tap_notify(SetState(d, "TAP_STATE_DEAD"), time, 1, "RELEASED")
      [] event = "TAP_EVENT_PALM" -> SetState(d, "TAP_STATE_DRAGGING_OR_DOUBLETAP")
      [] OTHER -> d

tp_tap_dragging2_handle_event(d, t, event, time) ==
    CASE event = "TAP_EVENT_RELEASE" -> SetState(d, "TAP_STATE_DRAGGING")
      [] event = "TAP_EVENT_TOUCH" ->
            tp_tap_notify(SetState(d, "TAP_STATE_DEAD"), time, 1, "RELEASED")
      [] event = "TAP_EVENT_BUTTON" ->
            tp_tap_notify(SetState(d, "TAP_STATE_DEAD"), time, 1, "RELEASED")
      [] event = "TAP_EVENT_PALM" -> SetState(d, "TAP_STATE_DRAGGING_OR_DOUBLETAP")
      [] OTHER -> d

tp_tap_dead_handle_event_any_count(d, t, event, time) ==
    CASE event \in {"TAP_EVENT_RELEASE", "TAP_EVENT_PALM", "TAP_EVENT_PALM_UP"} ->
            SetState(d, "TAP_STATE_IDLE")
      [] OTHER -> d

tp_tap_dead_handle_event(d, t, event, time) ==
    CASE event \in {"TAP_EVENT_RELEASE", "TAP_EVENT_PALM", "TAP_EVENT_PALM_UP"} ->
            IF d.nfingers_down = 0 THEN SetState(d, "TAP_STATE_IDLE") ELSE d
      [] OTHER -> d

\* The switch of tp_tap_handle_event over tp->tap.state.
Dispatch(d, t, event, time) ==
    CASE d.state = "TAP_STATE_IDLE" -> tp_tap_idle_handle_event(d, t, event, time)
      [] d.state = "TAP_STATE_TOUCH" -> tp_tap_touch_handle_event(d, t, event, time)
      [] d.state = "TAP_STATE_HOLD" -> tp_tap_hold_handle_event(d, t, event, time)
      [] d.state = "TAP_STATE_TAPPED" -> tp_tap_tapped_handle_event(d, t, event, time)
      [] d.state = "TAP_STATE_TOUCH_2" -> tp_tap_touch2_handle_event(d, t, event, time)
      [] d.state = "TAP_STATE_TOUCH_2_HOLD" ->
            tp_tap_touch2_hold_handle_event(d, t, event, time)
      [] d.state = "TAP_STATE_TOUCH_2_RELEASE" ->
            tp_tap_touch2_release_handle_event(d, t, event, time)
      [] d.state = "TAP_STATE_TOUCH_3" -> tp_tap_touch3_handle_event(d, t, event, time)
      [] d.state = "TAP_STATE_TOUCH_3_HOLD" ->
            tp_tap_touch3_hold_handle_event(d, t, event, time)
      [] d.state = "TAP_STATE_DRAGGING_OR_DOUBLETAP" ->
            tp_tap_dragging_or_doubletap_handle_event(d, t, event, time)
      [] d.state = "TAP_STATE_DRAGGING" -> tp_tap_dragging_handle_event(d, t, event, time)
      [] d.state = "TAP_STATE_DRAGGING_WAIT" ->
            tp_tap_dragging_wait_handle_event(d, t, event, time)
      [] d.state = "TAP_STATE_DRAGGING_OR_TAP" ->
            tp_tap_dragging_tap_handle_event(d, t, event, time)
      [] d.state = "TAP_STATE_DRAGGING_2" -> tp_tap_dragging2_handle_event(d, t, event, time)
      [] d.state = "TAP_STATE_DEAD" -> tp_tap_dead_handle_event(d, t, event, time)

\* t is the slot of the touch, 0 for NULL.  log is a history of the calls of
\* tp_tap_handle_event, not the debug output: every call is recorded, whether or
\* not it changes the state, with the state it was delivered in and what it left:
\* the state, the pressed buttons and whether the timer is armed, and with the
\* finger count at the call, the touch's own tap state at the call and the number
\* of button events it sent.
\* What tp_tap_handle_event leaves, e, with the call recorded in its log.
Logged(e, t, event, d) ==
    [e EXCEPT !.log = Append(@, [touch |-> t, event |-> event, state |-> d.state,
                                 next |-> e.state, buttons |-> e.buttons_pressed,
                                 armed |-> e.timer # <<>>,
                                 nfingers |-> e.nfingers_down,
                                 tap_state |-> IF t \in Slots
                                               THEN d.touches[t].tap_state
                                               ELSE "none",
                                 emitted |-> Len(e.out) - Len(d.out)])]

\* The call changed the state.
StateChanged(l) == l.state # l.next

\* The lines evdev_log_debug writes for the calls recorded in log: one for each
\* call that changed the state, with the touch's index, which counts from 0, and
\* -1 for NULL.
DebugLines(log) ==
    [n \in 1..Len(SelectSeq(log, StateChanged)) |->
        [touch |-> SelectSeq(log, StateChanged)[n].touch - 1,
         state |-> SelectSeq(log, StateChanged)[n].state,
         event |-> SelectSeq(log, StateChanged)[n].event,
         next |-> SelectSeq(log, StateChanged)[n].next]]

\* The state at the call and the result of the dispatch are each bound once, as
\* the element of a singleton.
tp_tap_handle_event(d, t, event, time) ==
    CHOOSE r \in UNION {{Logged(IF after.state = "TAP_STATE_IDLE"
                                   \/ after.state = "TAP_STATE_DEAD"
                                THEN tp_tap_clear_timer(after)
                                ELSE after,
                                t, event, before) :
                           after \in {Dispatch(before, t, event, time)}} :
                         before \in {d}} : TRUE


tp_tap_enabled_always(d) == TRUE

tp_tap_enabled(d) == d.enabled /\ ~d.suspended

\* far is the result of length_in_mm(mm) > DEFAULT_TAP_MOVE_THRESHOLD for the touch.
tp_tap_exceeds_motion_threshold(d, far) ==
    IF /\ d.synaptics_serial
       /\ (d.host_nfingers_down > 2 \/ d.old_nfingers_down > 2)
       /\ (d.host_nfingers_down > d.num_slots \/ d.old_nfingers_down > d.num_slots)
    THEN FALSE
    ELSE IF d.semi_mt /\ d.host_nfingers_down # d.old_nfingers_down
         THEN FALSE
         ELSE far

PalmTouchAlwaysCounted(d, t, time) ==
    LET e == tp_tap_handle_event(d, t, "TAP_EVENT_PALM", time)
    IN  [e EXCEPT !.touches[t].is_palm = TRUE,
                  !.touches[t].tap_state = "TAP_TOUCH_STATE_DEAD",
                  !.nfingers_down = @ - 1]

\* t->palm.state != PALM_NONE: TAP_EVENT_PALM, then the touch is a palm.
PalmTouch(d, t, time) ==
    LET e == tp_tap_handle_event(d, t, "TAP_EVENT_PALM", time)
        m == [e EXCEPT !.touches[t].is_palm = TRUE,
                       !.touches[t].tap_state = "TAP_TOUCH_STATE_DEAD"]
    IN  IF d.touches[t].state # "TOUCH_BEGIN"
        THEN [m EXCEPT !.nfingers_down = @ - 1]
        ELSE m

\* t->state == TOUCH_BEGIN
BeginTouch(d, t, in, time) ==
    IF in.thumb_ignored_for_tap
    THEN [d EXCEPT !.touches[t].is_thumb = TRUE]
    ELSE LET b == [d EXCEPT !.touches[t].tap_state = "TAP_TOUCH_STATE_TOUCH",
                            !.nfingers_down = @ + 1]
             e == tp_tap_handle_event(b, t, "TAP_EVENT_TOUCH", time)
         IN  IF in.palm_tap_is_palm
             THEN tp_tap_handle_event(e, t, "TAP_EVENT_MOTION", time)
             ELSE e

\* t->state == TOUCH_END
EndTouch(d, t, time) ==
    LET e == IF d.touches[t].was_down
             THEN tp_tap_handle_event([d EXCEPT !.nfingers_down = @ - 1],
                                      t, "TAP_EVENT_RELEASE", time)
             ELSE d
    IN  SetTouchTapState(e, t, "TAP_TOUCH_STATE_IDLE")

\* Any touch exceeding the threshold turns all touches into DEAD.
MotionTouch(d, t, time) ==
    LET k == [d EXCEPT !.touches =
                [i \in Slots |->
                    IF d.touches[i].tap_state = "TAP_TOUCH_STATE_TOUCH"
                    THEN [d.touches[i] EXCEPT !.tap_state = "TAP_TOUCH_STATE_DEAD"]
                    ELSE d.touches[i]]]
    IN  tp_tap_handle_event(k, t, "TAP_EVENT_MOTION", time)

\* The touches the loop skips because of their tap flags: a thumb is ignored, a palm
\* only sends TAP_EVENT_PALM_UP when it ends.
SkipThumbOrPalmNoThumb(d, t, time) ==
    IF d.touches[t].is_palm
    THEN [skip |-> TRUE,
          d |-> IF d.touches[t].state = "TOUCH_END"
                THEN tp_tap_handle_event(d, t, "TAP_EVENT_PALM_UP", time)
                ELSE d]
    ELSE [skip |-> FALSE, d |-> d]

SkipThumbOrPalm(d, t, time) ==
    IF d.touches[t].is_thumb
    THEN [skip |-> TRUE, d |-> d]
    ELSE IF d.touches[t].is_palm
         THEN [skip |-> TRUE,
               d |-> IF d.touches[t].state = "TOUCH_END"
                     THEN tp_tap_handle_event(d, t, "TAP_EVENT_PALM_UP", time)
                     ELSE d]
         ELSE [skip |-> FALSE, d |-> d]

\* The body of the tp_for_each_touch loop of tp_tap_handle_state.  in holds what the
\* host's classifiers answer for the touch in this tick.
ProcessTouch(d, t, in, time, button_press) ==
    IF ~d.touches[t].dirty \/ d.touches[t].state = "TOUCH_NONE"
    THEN d
    ELSE LET d1 == IF d.is_clickpad /\ button_press
                   THEN SetTouchTapState(d, t, "TAP_TOUCH_STATE_DEAD")
                   ELSE d
             sk == SkipThumbOrPalm(d1, t, time)
         IN  IF sk.skip THEN sk.d
             ELSE IF d1.touches[t].state = "TOUCH_HOVERING" THEN d1
             ELSE IF in.palm THEN PalmTouch(d1, t, time)
             ELSE IF d1.touches[t].state = "TOUCH_BEGIN" THEN BeginTouch(d1, t, in, time)
             ELSE IF d1.touches[t].state = "TOUCH_END" THEN EndTouch(d1, t, time)
             ELSE IF d1.state # "TAP_STATE_IDLE" /\ in.thumb_ignored
                  THEN tp_tap_handle_event(d1, t, "TAP_EVENT_THUMB", time)
             ELSE IF d1.state # "TAP_STATE_IDLE"
                     /\ tp_tap_exceeds_motion_threshold(d1, in.far)
                  THEN MotionTouch(d1, t, time)
             ELSE d1

RECURSIVE TouchLoop(_, _, _, _, _)
TouchLoop(d, t, ins, time, button_press) ==
    IF t > d.ntouches
    THEN d
    ELSE TouchLoop(ProcessTouch(d, t, ins[t], time, button_press),
                   t + 1, ins, time, button_press)

FilterMotionWithHold(state) ==
    IF state \in {"TAP_STATE_TOUCH", "TAP_STATE_TAPPED", "TAP_STATE_DRAGGING_OR_DOUBLETAP",
                  "TAP_STATE_DRAGGING_OR_TAP", "TAP_STATE_TOUCH_2", "TAP_STATE_TOUCH_3",
                  "TAP_STATE_HOLD"}
    THEN 1 ELSE 0

\* The switch that computes filter_motion.
FilterMotion(state) ==
    IF state \in {"TAP_STATE_TOUCH", "TAP_STATE_TAPPED", "TAP_STATE_DRAGGING_OR_DOUBLETAP",
                  "TAP_STATE_DRAGGING_OR_TAP", "TAP_STATE_TOUCH_2", "TAP_STATE_TOUCH_3"}
    THEN 1 ELSE 0

tp_tap_handle_state_any_device(d, time, ins, button_press) ==
    IF ~tp_tap_enabled(d)
    THEN [d |-> d, ret |-> 0]
    ELSE LET b == IF button_press
                  THEN tp_tap_handle_event(d, 0, "TAP_EVENT_BUTTON", time)
                  ELSE d
             e == TouchLoop(b, 1, ins, time, button_press)
         IN  [d |-> e, ret |-> FilterMotion(e.state)]

\* Returns the dispatch after the tick and the value returned to the caller.
tp_tap_handle_state(d, time, ins, button_press) ==
    IF ~tp_tap_enabled(d)
    THEN [d |-> d, ret |-> 0]
    ELSE LET b == IF d.is_clickpad /\ button_press
                  THEN tp_tap_handle_event(d, 0, "TAP_EVENT_BUTTON", time)
                  ELSE d
             e == TouchLoop(b, 1, ins, time, button_press)
         IN  [d |-> e, ret |-> FilterMotion(e.state)]

tp_tap_update_map_always(d) == [d EXCEPT !.map = d.want_map]

tp_tap_update_map(d) ==
    IF d.state # "TAP_STATE_IDLE"
    THEN d
    ELSE IF d.map # d.want_map THEN [d EXCEPT !.map = d.want_map] ELSE d

tp_tap_post_process_state(d) == tp_tap_update_map(d)

tp_tap_handle_timeout(d, time) ==
    LET e == tp_tap_handle_event(d, 0, "TAP_EVENT_TIMEOUT", time)
    IN  [e EXCEPT !.touches =
            [i \in Slots |->
                IF e.touches[i].state = "TOUCH_NONE"
                   \/ e.touches[i].tap_state = "TAP_TOUCH_STATE_IDLE"
                THEN e.touches[i]
                ELSE [e.touches[i] EXCEPT !.tap_state = "TAP_TOUCH_STATE_DEAD"]]]

RECURSIVE ReleaseButtons(_, _, _)
\* for (i = 1; i <= 3; i++) of tp_release_all_taps, from i on
ReleaseButtons(d, now_, i) ==
    IF i > 3
    THEN d
    ELSE ReleaseButtons(
            IF BitIsSet(d.buttons_pressed, i)
            THEN tp_tap_notify(d, now_, i, "RELEASED")
            ELSE d,
            now_, i + 1)

\* To neutralize all current touches, we make them all palms.
NeutralizeTouches(d) ==
    [d EXCEPT !.touches =
        [i \in Slots |->
            IF d.touches[i].state = "TOUCH_NONE" \/ d.touches[i].is_palm
            THEN d.touches[i]
            ELSE [d.touches[i] EXCEPT !.is_palm = TRUE,
                                      !.tap_state = "TAP_TOUCH_STATE_DEAD"]]]

RECURSIVE ReleaseEveryButton(_, _, _)
ReleaseEveryButton(d, now_, i) ==
    IF i > 3 THEN d
    ELSE ReleaseEveryButton(tp_tap_notify(d, now_, i, "RELEASED"), now_, i + 1)

tp_release_all_taps_unconditional(d, now_) ==
    [NeutralizeTouches(ReleaseEveryButton(d, now_, 1)) EXCEPT
        !.state = "TAP_STATE_IDLE", !.nfingers_down = 0]

tp_release_all_taps_no_release(d, now_) ==
    [NeutralizeTouches(d) EXCEPT !.state = "TAP_STATE_IDLE", !.nfingers_down = 0]

tp_release_all_taps_keep_count(d, now_) ==
    [NeutralizeTouches(ReleaseButtons(d, now_, 1)) EXCEPT !.state = "TAP_STATE_IDLE"]

tp_release_all_taps(d, now_) ==
    [NeutralizeTouches(ReleaseButtons(d, now_, 1)) EXCEPT
        !.state = "TAP_STATE_IDLE", !.nfingers_down = 0]

\* libinput_timer_cancel(&tp->tap.timer), and nothing else.
tp_remove_tap(d) == [d EXCEPT !.timer = <<>>]

\* On resume, all touches are considered palms.
ResumeTouches(d) ==
    [d EXCEPT !.touches =
        [i \in Slots |->
            IF d.touches[i].state = "TOUCH_NONE"
            THEN d.touches[i]
            ELSE [d.touches[i] EXCEPT !.is_palm = TRUE,
                                      !.tap_state = "TAP_TOUCH_STATE_DEAD"]]]

tp_tap_enabled_update_no_palms(d, suspended, enabled, time) ==
    LET was_enabled == tp_tap_enabled(d)
        n == [d EXCEPT !.suspended = suspended, !.enabled = enabled]
    IN  IF tp_tap_enabled(n) = was_enabled
        THEN n
        ELSE IF tp_tap_enabled(n)
             THEN [n EXCEPT !.state = "TAP_STATE_IDLE", !.nfingers_down = 0]
             ELSE tp_release_all_taps(n, time)

tp_tap_enabled_update(d, suspended, enabled, time) ==
    LET was_enabled == tp_tap_enabled(d)
        n == [d EXCEPT !.suspended = suspended, !.enabled = enabled]
    IN  IF tp_tap_enabled(n) = was_enabled
        THEN n
        ELSE IF tp_tap_enabled(n)
             THEN [ResumeTouches(n) EXCEPT !.state = "TAP_STATE_IDLE",
                                           !.nfingers_down = 0]
             ELSE tp_release_all_taps(n, time)

tp_tap_config_set_enabled(d, enabled, time) ==
    tp_tap_enabled_update(d, d.suspended, enabled, time)

tp_tap_config_set_map(d, map) == tp_tap_update_map([d EXCEPT !.want_map = map])

tp_tap_config_get_map(d) == d.want_map

tp_tap_config_set_drag_enabled(d, enabled) == [d EXCEPT !.drag_enabled = enabled]

tp_tap_config_set_draglock_enabled(d, enabled) == [d EXCEPT !.drag_lock_enabled = enabled]

tp_tap_suspend(d, time) == tp_tap_enabled_update(d, TRUE, d.enabled, time)

tp_tap_resume(d, time) == tp_tap_enabled_update(d, FALSE, d.enabled, time)

tp_tap_dragging(d) ==
    d.state \in {"TAP_STATE_DRAGGING", "TAP_STATE_DRAGGING_2",
                 "TAP_STATE_DRAGGING_WAIT", "TAP_STATE_DRAGGING_OR_TAP"}



(***************************************************************************)
(* The host: the touchpad dispatch that owns the touch slots, the clock    *)
(* and the timer, and the caller of the configuration interface.           *)
(***************************************************************************)

\* A frame changes at most MaxFrameEvents slots.
MaxFrameEvents == 1

BeginKinds == {"begin", "begin_palm", "begin_thumb", "begin_palmtap"}

\* What the host can do with slot i in one frame.
HostKinds(d, i) ==
    CASE i > d.ntouches -> {"none"}
      [] d.touches[i].state = "TOUCH_NONE" ->
            {"none"} \cup BeginKinds \cup (IF d.hover THEN {"hover"} ELSE {})
      [] d.touches[i].state = "TOUCH_HOVERING" -> {"none", "update", "begin", "end"}
      [] d.touches[i].state = "TOUCH_UPDATE" ->
            {"none", "update", "palm", "thumb", "far", "end"}

\* The slot after the host has processed the frame's events for it.
HostTouch(tc, k) ==
    CASE k = "none" -> tc
      [] k = "hover" ->
            [tc EXCEPT !.state = "TOUCH_HOVERING", !.dirty = TRUE, !.was_down = FALSE]
      [] k \in BeginKinds ->
            [tc EXCEPT !.state = "TOUCH_BEGIN", !.dirty = TRUE, !.was_down = TRUE]
      [] k = "end" -> [tc EXCEPT !.state = "TOUCH_END", !.dirty = TRUE]
      [] OTHER -> [tc EXCEPT !.dirty = TRUE]

\* What the host's classifiers answer for the touch in this frame: t->palm.state !=
\* PALM_NONE, tp_thumb_ignored_for_tap, tp_palm_tap_is_palm, tp_thumb_ignored and
\* length_in_mm(mm) > DEFAULT_TAP_MOVE_THRESHOLD.
Classify(k) ==
    [palm |-> k \in {"begin_palm", "palm"},
     thumb_ignored_for_tap |-> k = "begin_thumb",
     palm_tap_is_palm |-> k = "begin_palmtap",
     thumb_ignored |-> k = "thumb",
     far |-> k = "far"]

\* tp->nfingers_down of the host: the touches that are down.
CountDown(touches) ==
    Cardinality({i \in Slots : touches[i].state \in {"TOUCH_BEGIN", "TOUCH_UPDATE"}})

HostFrame(d, kinds) ==
    LET ts == [i \in Slots |-> HostTouch(d.touches[i], kinds[i])]
    IN  [d EXCEPT !.touches = ts,
                  !.old_nfingers_down = d.host_nfingers_down,
                  !.host_nfingers_down = CountDown(ts)]

\* The end of the frame: a touch that began is now updating, a touch that ended
\* frees its slot.  The tap flags last for the life of the touch.
HostPostTouch(tc) ==
    CASE tc.state = "TOUCH_BEGIN" -> [tc EXCEPT !.state = "TOUCH_UPDATE", !.dirty = FALSE]
      [] tc.state = "TOUCH_END" ->
            [tc EXCEPT !.state = "TOUCH_NONE", !.dirty = FALSE, !.was_down = FALSE,
                       !.is_palm = FALSE, !.is_thumb = FALSE]
      [] OTHER -> [tc EXCEPT !.dirty = FALSE]

HostPostProcess(d) ==
    [d EXCEPT !.touches = [i \in Slots |-> HostPostTouch(d.touches[i])],
              !.old_nfingers_down = d.host_nfingers_down]

RECURSIVE Frames(_, _, _)
\* The frames over the slots 1..i that change at most n of them.
Frames(d, i, n) ==
    IF i = 0
    THEN {<<>>}
    ELSE {Append(f, "none") : f \in Frames(d, i - 1, n)}
         \cup (IF n = 0
               THEN {}
               ELSE {Append(f[1], f[2]) :
                        f \in Frames(d, i - 1, n - 1) \X (HostKinds(d, i) \ {"none"})})

\* The frames the host can deliver: one kind per slot.
FrameInputs(d) == Frames(d, 3, MaxFrameEvents)

\* A clickpad with three touches.
Clickpad ==
    [is_clickpad |-> TRUE, synaptics_serial |-> FALSE, semi_mt |-> FALSE,
     num_slots |-> 3, ntouches |-> 3, hover |-> FALSE]

\* A semi-mt Synaptics serial touchpad with separate buttons, two touches, and
\* hovering touches.
Touchpad ==
    [is_clickpad |-> FALSE, synaptics_serial |-> TRUE, semi_mt |-> TRUE,
     num_slots |-> 2, ntouches |-> 2, hover |-> TRUE]

NoTouch ==
    [state |-> "TOUCH_NONE", dirty |-> FALSE, was_down |-> FALSE,
     tap_state |-> "TAP_TOUCH_STATE_IDLE", is_palm |-> FALSE, is_thumb |-> FALSE]

\* tp_init_tap on a zeroed dispatch; enabled is tp_tap_default of the device.
tp_init_tap(dev, enabled) ==
    [state |-> "TAP_STATE_IDLE",
     nfingers_down |-> 0,
     saved_press_time |-> 0,
     saved_release_time |-> 0,
     buttons_pressed |-> 0,
     map |-> LIBINPUT_CONFIG_TAP_MAP_LRM,
     want_map |-> LIBINPUT_CONFIG_TAP_MAP_LRM,
     enabled |-> enabled,
     suspended |-> FALSE,
     drag_enabled |-> TRUE,
     drag_lock_enabled |-> FALSE,
     timer |-> <<>>,
     touches |-> [i \in Slots |-> NoTouch],
     host_nfingers_down |-> 0,
     old_nfingers_down |-> 0,
     is_clickpad |-> dev.is_clickpad,
     synaptics_serial |-> dev.synaptics_serial,
     semi_mt |-> dev.semi_mt,
     num_slots |-> dev.num_slots,
     ntouches |-> dev.ntouches,
     hover |-> dev.hover,
     out |-> <<>>,
     log |-> <<>>]

\* The dispatch between operations: nothing emitted or delivered.
Fresh(d) == [d EXCEPT !.out = <<>>, !.log = <<>>]

RECURSIVE Replay(_, _)
\* What the receiver of the button events holds for each finger count after the
\* events of out: the button of the open press, "none" without one.
Replay(h, out) ==
    IF out = <<>>
    THEN h
    ELSE Replay([h EXCEPT ![Head(out).nfingers] =
                    IF Head(out).state = "PRESSED" THEN Head(out).button ELSE "none"],
                Tail(out))

Active(d) == {i \in Slots : d.touches[i].state # "TOUCH_NONE"}

\* tp_tap_handle_state on the frame kinds: the dispatch when it returns, and what
\* it returns.
HandleState(d, kinds, button_press, time) ==
    tp_tap_handle_state(HostFrame(d, kinds), time,
                        [i \in Slots |-> Classify(kinds[i])], button_press)

\* The dispatch after the frame: tp_tap_handle_state, then the host's and the tap
\* code's post-processing.
AfterFrame(d, kinds, button_press, time) ==
    tp_tap_post_process_state(HostPostProcess(HandleState(d, kinds, button_press, time).d))

\* The timer is single-shot: it is disarmed when its callback runs.
TimerFires(d, time) == tp_tap_handle_timeout([d EXCEPT !.timer = <<>>], time)

TimerDue(d, time) == d.timer # <<>> /\ time >= d.timer[1]

\* The bench "gestures" drives the clickpad; the bench "config" drives the touchpad
\* and also calls the button map and drag configuration.
Init ==
    /\ bench \in {"gestures", "config"}
    /\ \E enabled \in BOOLEAN :
        tp = tp_init_tap(IF bench = "gestures" THEN Clickpad ELSE Touchpad, enabled)
    /\ now = 0
    /\ held = [n \in 1..3 |-> "none"]
    /\ inflight = {}
    /\ removed = FALSE

\* The end of an operation that leaves the dispatch e.  Operations run on a device
\* that has not been removed.
Commit(e) ==
    /\ ~removed
    /\ tp' = Fresh(e)
    /\ held' = Replay(held, e.out)
    /\ bench' = bench
    /\ removed' = removed

\* The touches in flight after a call: all active ones when the call enables tapping
\* or, disabling it, runs tp_release_all_taps.
Marked(e) ==
    IF tp_tap_enabled(e) # tp_tap_enabled(tp) THEN Active(e) ELSE inflight

\* One frame of the touchpad.
Tick ==
    \E kinds \in FrameInputs(tp), button_press \in BOOLEAN :
        /\ Commit(AfterFrame(tp, kinds, button_press, now))
        /\ inflight' = {i \in inflight : kinds[i] \notin BeginKinds \cup {"end"}}
        /\ now' = now

Timeout ==
    /\ TimerDue(tp, now)
    /\ Commit(TimerFires(tp, now))
    /\ UNCHANGED <<now, inflight>>

Suspend ==
    /\ Commit(tp_tap_suspend(tp, now))
    /\ inflight' = Marked(tp_tap_suspend(tp, now))
    /\ now' = now

Resume ==
    /\ Commit(tp_tap_resume(tp, now))
    /\ inflight' = Marked(tp_tap_resume(tp, now))
    /\ now' = now

SetEnabled ==
    \E enabled \in BOOLEAN :
        /\ Commit(tp_tap_config_set_enabled(tp, enabled, now))
        /\ inflight' = Marked(tp_tap_config_set_enabled(tp, enabled, now))
        /\ now' = now

Maps == {LIBINPUT_CONFIG_TAP_MAP_LRM, LIBINPUT_CONFIG_TAP_MAP_LMR}

SetMap ==
    /\ bench = "config"
    /\ \E map \in Maps : Commit(tp_tap_config_set_map(tp, map))
    /\ UNCHANGED <<now, inflight>>

SetDragEnabled ==
    /\ bench = "config"
    /\ \E enabled \in BOOLEAN : Commit(tp_tap_config_set_drag_enabled(tp, enabled))
    /\ UNCHANGED <<now, inflight>>

SetDragLockEnabled ==
    /\ \E enabled \in BOOLEAN : Commit(tp_tap_config_set_draglock_enabled(tp, enabled))
    /\ UNCHANGED <<now, inflight>>

ReleaseAll ==
    /\ Commit(tp_release_all_taps(tp, now))
    /\ inflight' = Active(tp)
    /\ now' = now

\* The device is removed: the timer is cancelled and no operation follows.
RemoveTap ==
    /\ ~removed
    /\ tp' = tp_remove_tap(tp)
    /\ removed' = TRUE
    /\ UNCHANGED <<now, held, inflight, bench>>

\* Time passes.
Advance ==
    /\ ~removed
    /\ now + Quantum <= MaxClock * Quantum
    /\ now' = now + Quantum
    /\ UNCHANGED <<tp, held, inflight, bench, removed>>

Next ==
    \/ Tick
    \/ Timeout
    \/ Suspend
    \/ Resume
    \/ SetEnabled
    \/ SetMap
    \/ SetDragEnabled
    \/ SetDragLockEnabled
    \/ ReleaseAll
    \/ RemoveTap
    \/ Advance

Spec == Init /\ [][Next]_vars

TypeOK ==
    /\ removed \in BOOLEAN
    /\ tp.state \in TapStates
    /\ tp.out = <<>>
    /\ tp.log = <<>>

(***************************************************************************)
(* What the operations that can run next leave behind, with the button     *)
(* events they emit in out and the FSM events they deliver in log.  No     *)
(* operation runs next on a removed device.                                *)
(***************************************************************************)

TickResults ==
    IF removed
    THEN {}
    ELSE {AfterFrame(tp, k, b, now) : k \in FrameInputs(tp), b \in BOOLEAN}

TimeoutResults == IF ~removed /\ TimerDue(tp, now) THEN {TimerFires(tp, now)} ELSE {}

LifecycleResults ==
    IF removed
    THEN {}
    ELSE {tp_tap_suspend(tp, now), tp_tap_resume(tp, now), tp_release_all_taps(tp, now)}
         \cup {tp_tap_config_set_enabled(tp, b, now) : b \in BOOLEAN}

SetMapResults == IF removed THEN {} ELSE {tp_tap_config_set_map(tp, m) : m \in Maps}

DragConfigResults ==
    IF removed
    THEN {}
    ELSE {tp_tap_config_set_draglock_enabled(tp, b) : b \in BOOLEAN}
         \cup (IF bench = "config"
               THEN {tp_tap_config_set_drag_enabled(tp, b) : b \in BOOLEAN}
               ELSE {})

ConfigResults ==
    DragConfigResults \cup (IF bench = "config" THEN SetMapResults ELSE {})

RemoveResults == IF removed THEN {} ELSE {tp_remove_tap(tp)}

Outcomes ==
    TickResults \cup TimeoutResults \cup LifecycleResults \cup ConfigResults
    \cup RemoveResults

RECURSIVE Alternates(_, _)
\* The events of out continue the events that left h: a press only for a finger
\* count with no open press, a release only for one with an open press, and with
\* the button of that press.
Alternates(h, out) ==
    \/ out = <<>>
    \/ /\ IF Head(out).state = "PRESSED"
          THEN h[Head(out).nfingers] = "none"
          ELSE h[Head(out).nfingers] = Head(out).button
       /\ Alternates(Replay(h, <<Head(out)>>), Tail(out))

\* C1: for each finger count the button events emitted over all ticks, timer
\* callbacks and lifecycle calls alternate press, release, starting with a press,
\* and a release carries the button of the press it closes, also when the map is
\* set in between.
C1_PressReleaseAlternate ==
    /\ \A e \in Outcomes : Alternates(held, e.out)
    /\ \A n \in 1..3 : (held[n] # "none") <=> BitIsSet(tp.buttons_pressed, n)

\* A drag holds the left button under a map that is about to change, and the next
\* operation releases it.
C1_Witness ==
    /\ held[1] = "BTN_LEFT"
    /\ tp.want_map # tp.map
    /\ \E e \in Outcomes :
        /\ e.out # <<>>
        /\ e.out[1].state = "RELEASED"
        /\ e.out[1].nfingers = 1
        /\ e.map # tp.map

\* C2: a press is released before the state is next IDLE: after every FSM event,
\* timer callback and lifecycle call, state == IDLE implies buttons_pressed == 0.
C2_IdleHoldsNoButton ==
    /\ tp.state = "TAP_STATE_IDLE" => tp.buttons_pressed = 0
    /\ \A e \in Outcomes :
        \A k \in 1..Len(e.log) :
            e.log[k].next = "TAP_STATE_IDLE" => e.log[k].buttons = 0

\* The left button is held by a drag, and an event of the next frame ends the drag
\* in IDLE.
C2_Witness ==
    /\ BitIsSet(tp.buttons_pressed, 1)
    /\ \E e \in TickResults :
        \E k \in 1..Len(e.log) :
            /\ e.log[k].state = "TAP_STATE_DRAGGING"
            /\ e.log[k].next = "TAP_STATE_IDLE"

\* C3: after every operation, when the state is IDLE or DEAD the timer is not
\* armed.
C3_IdleOrDeadTimerUnarmed ==
    tp.state \in {"TAP_STATE_IDLE", "TAP_STATE_DEAD"} => tp.timer = <<>>

\* C4: the tap finger count stays between 0 and the host's count of touches that
\* are down, and is 0 when the host's is: after every tick, and also after every
\* other operation; no event is delivered with a negative count.
C4_FingerCountBounded ==
    /\ 0 <= tp.nfingers_down
    /\ tp.nfingers_down <= tp.host_nfingers_down
    /\ tp.host_nfingers_down = 0 => tp.nfingers_down = 0
    /\ \A e \in TickResults :
        /\ 0 <= e.nfingers_down
        /\ e.nfingers_down <= e.host_nfingers_down
        /\ \A k \in 1..Len(e.log) : e.log[k].nfingers >= 0

\* Three touches are down, one a palm and one a thumb, and the tap code counts the
\* third only.
C4_Witness ==
    /\ tp.host_nfingers_down = 3
    /\ tp.nfingers_down = 1
    /\ \E i, j \in Slots : tp.touches[i].is_palm /\ tp.touches[j].is_thumb

\* C5: set_map always records want_map, which get_map returns; the map changes only
\* in a tick or in set_map, only when that operation ends in state IDLE, and then
\* to want_map; an operation that ends in another state leaves the map unchanged.
C5_MapChangesOnlyInIdle ==
    /\ \A m \in Maps :
        LET e == tp_tap_config_set_map(tp, m)
        IN  /\ tp_tap_config_get_map(e) = m
            /\ e.map = IF tp.state = "TAP_STATE_IDLE" THEN m ELSE tp.map
    /\ \A e \in TickResults :
        /\ e.want_map = tp.want_map
        /\ e.map = IF e.state = "TAP_STATE_IDLE" THEN tp.want_map ELSE tp.map
    /\ \A e \in TimeoutResults \cup LifecycleResults \cup DragConfigResults :
        e.map = tp.map /\ e.want_map = tp.want_map

\* A map set during a gesture is pending: get_map returns it, the active map is
\* still the old one, and a next tick that ends in IDLE adopts it.
C5_Witness ==
    /\ tp.state # "TAP_STATE_IDLE"
    /\ tp.map = LIBINPUT_CONFIG_TAP_MAP_LMR
    /\ tp_tap_config_get_map(tp) = LIBINPUT_CONFIG_TAP_MAP_LRM
    /\ \E e \in TickResults : e.map = LIBINPUT_CONFIG_TAP_MAP_LRM

\* The events of out for the finger count n.
EventsFor(out, n) == {k \in 1..Len(out) : out[k].nfingers = n}

\* C6: release_all leaves state IDLE, nfingers_down 0 and buttons_pressed 0, emits
\* exactly one release for each finger count whose bit was set and nothing else,
\* and leaves every active touch a palm with per-touch state DEAD.
C6_ReleaseAllResets ==
    LET e == tp_release_all_taps(tp, now)
    IN  /\ e.state = "TAP_STATE_IDLE"
        /\ e.nfingers_down = 0
        /\ e.buttons_pressed = 0
        /\ \A k \in 1..Len(e.out) : e.out[k].state = "RELEASED" /\ e.out[k].nfingers \in 1..3
        /\ \A n \in 1..3 :
            Cardinality(EventsFor(e.out, n)) = IF BitIsSet(tp.buttons_pressed, n) THEN 1 ELSE 0
        /\ \A i \in Active(e) :
            e.touches[i].is_palm /\ e.touches[i].tap_state = "TAP_TOUCH_STATE_DEAD"

\* release_all can run during a drag: a button is held, a touch that is no palm is
\* counted.
C6_Witness ==
    /\ tp.buttons_pressed # 0
    /\ tp.nfingers_down > 0
    /\ \E i \in Active(tp) : ~tp.touches[i].is_palm
    /\ tp_release_all_taps(tp, now).out # <<>>

\* Tapping is effectively enabled: enabled by configuration and not suspended.
Effective(d) == d.enabled /\ ~d.suspended

\* The dispatch d with the enable flags of c.
WithFlagsOf(d, c) == [d EXCEPT !.enabled = c.enabled, !.suspended = c.suspended]

EnableResults ==
    IF removed
    THEN {}
    ELSE {tp_tap_suspend(tp, now), tp_tap_resume(tp, now)}
         \cup {tp_tap_config_set_enabled(tp, b, now) : b \in BOOLEAN}

\* C7: a suspend or set_enabled(false) that disables tapping releases every held
\* button in the call and resets the state; while tapping is disabled every tick
\* returns 0, and ticks and the timer emit nothing, deliver nothing, leave the
\* state IDLE and the finger count unchanged; a suspend, resume or set_enabled
\* that does not change whether tapping is enabled changes only the flags.
C7_DisabledIsInert ==
    /\ \A e \in {tp_tap_suspend(tp, now), tp_tap_config_set_enabled(tp, FALSE, now)} :
        Effective(tp) /\ ~Effective(e)
        => /\ e.state = "TAP_STATE_IDLE"
           /\ e.nfingers_down = 0
           /\ e.buttons_pressed = 0
           /\ Alternates(held, e.out)
           /\ \A n \in 1..3 : Replay(held, e.out)[n] = "none"
    /\ ~Effective(tp)
        => /\ tp.state = "TAP_STATE_IDLE"
           /\ \A k \in FrameInputs(tp), b \in BOOLEAN :
                LET r == HandleState(tp, k, b, now)
                    e == AfterFrame(tp, k, b, now)
                IN  /\ r.ret = 0
                    /\ r.d = HostFrame(tp, k)
                    /\ e.out = <<>> /\ e.log = <<>>
                    /\ e.state = "TAP_STATE_IDLE"
                    /\ e.nfingers_down = tp.nfingers_down
           /\ \A e \in TimeoutResults :
                /\ e.out = <<>>
                /\ e.state = "TAP_STATE_IDLE"
                /\ e.nfingers_down = tp.nfingers_down
    /\ \A e \in EnableResults :
        Effective(e) = Effective(tp) => WithFlagsOf(e, tp) = tp

\* Tapping was disabled during a gesture: a touch is still down and the timer of
\* the gesture is due.
C7_Witness ==
    /\ ~Effective(tp)
    /\ tp.host_nfingers_down > 0
    /\ TimerDue(tp, now)
    /\ \E k \in FrameInputs(tp) : k # <<"none", "none", "none">>

\* The FSM events a touch in flight must not cause.
TouchEvents ==
    {"TAP_EVENT_TOUCH", "TAP_EVENT_MOTION", "TAP_EVENT_RELEASE", "TAP_EVENT_THUMB",
     "TAP_EVENT_PALM"}

\* The slots a frame changes.
Changed(k) == {i \in Slots : k[i] # "none"}

\* C8: a touch that was active when tapping became enabled or when release_all ran
\* is a palm until it ends: no tick delivers a TOUCH, MOTION, RELEASE, THUMB or PALM
\* event for it, and a frame in which only such touches change leaves the finger
\* count unchanged and presses no button.
C8_InFlightTouchesArePalms ==
    \A i \in inflight :
        /\ i \in Active(tp)
        /\ tp.touches[i].is_palm
        /\ \A k \in FrameInputs(tp), b \in BOOLEAN :
            LET e == AfterFrame(tp, k, b, now)
            IN  /\ \A n \in 1..Len(e.log) :
                    e.log[n].touch = i => e.log[n].event \notin TouchEvents
                /\ Changed(k) \subseteq inflight
                    => /\ e.nfingers_down = tp.nfingers_down
                       /\ \A n \in 1..Len(e.out) : e.out[n].state # "PRESSED"

\* Tapping is enabled, a touch that began afterwards is being tracked, and a touch
\* in flight ends: the tick delivers PALM_UP for it.
C8_Witness ==
    /\ tp_tap_enabled(tp)
    /\ tp.nfingers_down > 0
    /\ \E i \in inflight, k \in FrameInputs(tp) :
        /\ k[i] = "end"
        /\ AfterFrame(tp, k, FALSE, now).log
            = <<[touch |-> i, event |-> "TAP_EVENT_PALM_UP", state |-> tp.state,
                 next |-> tp.state, buttons |-> tp.buttons_pressed,
                 armed |-> tp.timer # <<>>, nfingers |-> tp.nfingers_down,
                 tap_state |-> tp.touches[i].tap_state, emitted |-> 0]>>

\* The entries of log that were delivered for touch i.
EventsOf(log, i) == {n \in 1..Len(log) : log[n].touch = i}

\* C9: a touch whose is_thumb or is_palm flag is set keeps the flag until it ends
\* and causes no FSM event in any later tick, except that the tick in which a palm
\* ends delivers exactly one event for it, PALM_UP; a thumb causes none, not even
\* at its end.  (A tick while tapping is disabled delivers no event at all.)
C9_ThumbAndPalmAreSilent ==
    \A i \in Active(tp) :
        tp.touches[i].is_thumb \/ tp.touches[i].is_palm
        => \A k \in FrameInputs(tp), b \in BOOLEAN :
            LET e == AfterFrame(tp, k, b, now)
                ev == EventsOf(e.log, i)
            IN  /\ k[i] # "end"
                    => /\ e.touches[i].is_thumb = tp.touches[i].is_thumb
                       /\ e.touches[i].is_palm = tp.touches[i].is_palm
                /\ IF tp.touches[i].is_thumb \/ k[i] # "end" \/ ~Effective(tp)
                   THEN ev = {}
                   ELSE /\ Cardinality(ev) = 1
                        /\ \A n \in ev : e.log[n].event = "TAP_EVENT_PALM_UP"

\* During a gesture one touch is a thumb and another a palm, and either can end in
\* the next tick.
C9_Witness ==
    /\ Effective(tp)
    /\ tp.state = "TAP_STATE_TOUCH"
    /\ \E i, j \in Active(tp) :
        /\ tp.touches[i].is_palm /\ ~tp.touches[i].is_thumb
        /\ tp.touches[j].is_thumb /\ ~tp.touches[j].is_palm
        /\ \E k \in FrameInputs(tp) :
            /\ k[i] = "end"
            /\ EventsOf(AfterFrame(tp, k, FALSE, now).log, i) = {1}
        /\ \E k \in FrameInputs(tp) :
            /\ k[j] = "end"
            /\ AfterFrame(tp, k, FALSE, now).log = <<>>

\* The states in which motion below the threshold is filtered.
FilteringStates ==
    {"TAP_STATE_TOUCH", "TAP_STATE_TAPPED", "TAP_STATE_TOUCH_2", "TAP_STATE_TOUCH_3",
     "TAP_STATE_DRAGGING_OR_DOUBLETAP", "TAP_STATE_DRAGGING_OR_TAP"}

\* C10: tp_tap_handle_state returns 1 if and only if tapping is effectively enabled
\* and the state after all events of the tick is TOUCH, TAPPED, TOUCH_2, TOUCH_3,
\* DRAGGING_OR_DOUBLETAP or DRAGGING_OR_TAP, and 0 otherwise.
C10_FilterMotionIffWaiting ==
    \A k \in FrameInputs(tp), b \in BOOLEAN :
        LET r == HandleState(tp, k, b, now)
        IN  /\ r.ret \in {0, 1}
            /\ r.ret = 1 <=> (Effective(tp) /\ r.d.state \in FilteringStates)

\* In HOLD the tick without events returns 0 and stays in HOLD, and a tick in which
\* a second touch begins ends in TOUCH_2 and returns 1.
C10_Witness ==
    /\ tp.state = "TAP_STATE_HOLD"
    /\ Effective(tp)
    /\ LET r == HandleState(tp, <<"none", "none", "none">>, FALSE, now)
       IN  r.ret = 0 /\ r.d.state = "TAP_STATE_HOLD"
    /\ \E k \in FrameInputs(tp), b \in BOOLEAN :
        LET r == HandleState(tp, k, b, now)
        IN  r.ret = 1 /\ r.d.state = "TAP_STATE_TOUCH_2"

(***************************************************************************)
(* Gestures.  A gesture is run from a state of the touchpad by applying    *)
(* frames and timer callbacks one after the other, each at its own time;   *)
(* the button events of each step are the out of its result.               *)
(***************************************************************************)

\* The time between two steps of a gesture, in units of 10 ms.
Gaps == {0, 1, 3, 5, 17}

\* Tapping is enabled, the state is IDLE and no touch is on the touchpad.
AtRest(d) ==
    /\ Effective(d)
    /\ d.state = "TAP_STATE_IDLE"
    /\ Active(d) = {}

\* The frame in which only touch i changes.
OneSlot(i, kind) == [s \in Slots |-> IF s = i THEN kind ELSE "none"]

\* Touch i begins, ends, or moves beyond the threshold at time t, no button pressed.
Down(d, i, t) == AfterFrame(Fresh(d), OneSlot(i, "begin"), FALSE, t)

Up(d, i, t) == AfterFrame(Fresh(d), OneSlot(i, "end"), FALSE, t)

Moved(d, i, t) == AfterFrame(Fresh(d), OneSlot(i, "far"), FALSE, t)

\* The timer callback runs at time t.
Fired(d, t) == TimerFires(Fresh(d), t)

Pressed(d, n, t) ==
    [time |-> t, button |-> button_map[d.map + 1][n], state |-> "PRESSED", nfingers |-> n]

Released(d, n, t) ==
    [time |-> t, button |-> button_map[d.map + 1][n], state |-> "RELEASED", nfingers |-> n]

\* C11: with drag enabled, a touch that begins at t0 on the touchpad at rest and
\* ends at t1 before the tap timer fires, without motion, emits nothing before t1;
\* its end emits press(1 finger, t0) and leaves TAPPED with the timer armed for
\* t1 + 180 ms; the timer firing then, no touch having begun, emits
\* release(1 finger, t1) and leaves IDLE.
C11_SingleFingerTap ==
    (AtRest(tp) /\ tp.drag_enabled) =>
        \A i \in 1..tp.ntouches, g \in Gaps :
            LET t0 == now
                t1 == now + g
                a == Down(tp, i, t0)
                b == Up(a, i, t1)
                c == Fired(b, t1 + DEFAULT_TAP_TIMEOUT_PERIOD)
            IN  ~TimerDue(a, t1) =>
                    /\ a.out = <<>>
                    /\ b.out = <<Pressed(tp, 1, t0)>>
                    /\ b.state = "TAP_STATE_TAPPED"
                    /\ b.timer = <<t1 + DEFAULT_TAP_TIMEOUT_PERIOD>>
                    /\ c.out = <<Released(tp, 1, t1)>>
                    /\ c.state = "TAP_STATE_IDLE"

\* The tap has been made and its timer is due: the callback releases the button
\* with the time the touch ended.
C11_Witness ==
    /\ tp.state = "TAP_STATE_TAPPED"
    /\ Active(tp) = {}
    /\ held[1] = "BTN_LEFT"
    /\ tp.saved_press_time = 0
    /\ tp.timer = <<tp.saved_release_time + DEFAULT_TAP_TIMEOUT_PERIOD>>
    /\ TimerDue(tp, now)
    /\ TimerFires(tp, now).out = <<Released(tp, 1, tp.saved_release_time)>>
    /\ TimerFires(tp, now).state = "TAP_STATE_IDLE"

\* Two touches begin on the touchpad at rest, at ta and then at tb, and both end,
\* the first at tc and the other at td, each step before the timer fires and
\* without motion: nothing is emitted until the second end, which emits exactly
\* press(2 fingers) with the time PressTime(ta, tb) and then release(2 fingers)
\* with the time of the first end, and leaves IDLE.
TwoFingerTap(PressTime(_, _)) ==
    AtRest(tp) =>
        \A i, j \in 1..tp.ntouches, first \in BOOLEAN, g1, g2, g3 \in Gaps :
            LET ta == now
                tb == ta + g1
                tc == tb + g2
                td == tc + g3
                a == Down(tp, i, ta)
                b == Down(a, j, tb)
                c == Up(b, IF first THEN i ELSE j, tc)
                e == Up(c, IF first THEN j ELSE i, td)
            IN  (i # j /\ g1 > 0 /\ ~TimerDue(a, tb) /\ ~TimerDue(b, tc) /\ ~TimerDue(c, td)) =>
                    /\ a.out = <<>> /\ b.out = <<>> /\ c.out = <<>>
                    /\ e.out = <<Pressed(tp, 2, PressTime(ta, tb)), Released(tp, 2, tc)>>
                    /\ e.state = "TAP_STATE_IDLE"

FirstBegin(ta, tb) == ta

LastBegin(ta, tb) == tb

\* C12 as stated: a two-finger tap emits nothing until its second end, which emits
\* press then release of the button for two fingers (RIGHT under LRM), the press
\* with the time of the first begin and the release with the time of the first
\* end, and returns to IDLE.
C12_PressCarriesFirstBegin == TwoFingerTap(FirstBegin)

\* C12: a two-finger tap emits nothing until its second end, which emits press
\* then release of the button for two fingers (RIGHT under LRM), the press with
\* the time of the second begin, which overwrote the saved press time, and the
\* release with the time of the first end, and returns to IDLE.
C12_TwoFingerTap == TwoFingerTap(LastBegin)

\* One touch is down under LRM; the second begins 10 ms later, the first ends at
\* 40 ms and the second at 50 ms: RIGHT is pressed with the second begin's time.
C12_Witness ==
    /\ tp.state = "TAP_STATE_TOUCH"
    /\ tp.map = LIBINPUT_CONFIG_TAP_MAP_LRM
    /\ now = 0
    /\ tp.saved_press_time = 0
    /\ \E i, j \in 1..tp.ntouches :
        /\ Active(tp) = {i}
        /\ j # i
        /\ LET b == Down(tp, j, 1)
               c == Up(b, i, 4)
               e == Up(c, j, 5)
           IN  /\ c.state = "TAP_STATE_TOUCH_2_RELEASE"
               /\ e.out = <<[time |-> 1, button |-> "BTN_RIGHT", state |-> "PRESSED",
                             nfingers |-> 2],
                            [time |-> 4, button |-> "BTN_RIGHT", state |-> "RELEASED",
                             nfingers |-> 2]>>
               /\ e.state = "TAP_STATE_IDLE"

\* The orders in which three touches can end: the slots in the order of their ends.
Orders(i, j, k) ==
    {<<i, j, k>>, <<i, k, j>>, <<j, i, k>>, <<j, k, i>>, <<k, i, j>>, <<k, j, i>>}

\* C13: three touches begin on the touchpad at rest and all end, with no timeout,
\* motion, palm or button press: exactly one press and release of the button for
\* three fingers (MIDDLE under LRM) is emitted, on the first of the three ends, the
\* release with the time of that end; the two later ends emit nothing; the state
\* passes TOUCH_3, TOUCH_2_HOLD, HOLD, IDLE.
C13_ThreeFingerTap ==
    AtRest(tp) =>
        \A i, j, k \in 1..tp.ntouches, g, h, r \in Gaps :
            (i # j /\ i # k /\ j # k) =>
                \A o \in Orders(i, j, k) :
                    LET t3 == now + g + g
                        tc == t3 + h
                        a == Down(tp, i, now)
                        b == Down(a, j, now + g)
                        c == Down(b, k, t3)
                        x == Up(c, o[1], tc)
                        y == Up(x, o[2], tc + r)
                        z == Up(y, o[3], tc + r + r)
                    IN  (~TimerDue(a, now + g) /\ ~TimerDue(b, t3) /\ ~TimerDue(c, tc + r + r)) =>
                            /\ a.out = <<>> /\ b.out = <<>> /\ c.out = <<>>
                            /\ c.state = "TAP_STATE_TOUCH_3"
                            /\ x.out = <<Pressed(tp, 3, t3), Released(tp, 3, tc)>>
                            /\ x.state = "TAP_STATE_TOUCH_2_HOLD"
                            /\ y.out = <<>>
                            /\ y.state = "TAP_STATE_HOLD"
                            /\ z.out = <<>>
                            /\ z.state = "TAP_STATE_IDLE"

\* Three touches tapped under LRM and the first has ended: MIDDLE was pressed and
\* released, two touches remain in TOUCH_2_HOLD and their ends emit nothing.
C13_Witness ==
    /\ tp.state = "TAP_STATE_TOUCH_3"
    /\ tp.map = LIBINPUT_CONFIG_TAP_MAP_LRM
    /\ Active(tp) = 1..3
    /\ \A i \in 1..3 : tp.touches[i].tap_state = "TAP_TOUCH_STATE_TOUCH"
    /\ ~TimerDue(tp, now)
    /\ LET x == Up(tp, 2, now)
           y == Up(x, 3, now)
           z == Up(y, 1, now)
       IN  /\ x.out = <<[time |-> tp.saved_press_time, button |-> "BTN_MIDDLE",
                         state |-> "PRESSED", nfingers |-> 3],
                        [time |-> now, button |-> "BTN_MIDDLE",
                         state |-> "RELEASED", nfingers |-> 3]>>
           /\ x.state = "TAP_STATE_TOUCH_2_HOLD"
           /\ y.out = <<>> /\ y.state = "TAP_STATE_HOLD"
           /\ z.out = <<>> /\ z.state = "TAP_STATE_IDLE"

\* The dispatch at time t when the timer fires at its deadline: after the callback
\* if the deadline has passed by t, unchanged otherwise.
Due(d, t) == IF TimerDue(d, t) THEN Fired(d, d.timer[1]) ELSE d

\* Tap and drag with drag enabled and drag-lock disabled, on the touchpad at rest:
\* a touch begins at t0 and ends at t1, a touch begins at t2, moves beyond the
\* threshold at t3 and ends at t4, the taps before the timer fires.  The first end
\* emits press(1 finger, t0); the second begin emits SecondBegin(t0, t1); the motion
\* emits nothing and leaves the button held in DRAGGING; the timer firing during
\* the drag emits nothing; the final end emits release(1 finger, t4) and leaves IDLE.
TapAndDrag(SecondBegin(_, _)) ==
    (AtRest(tp) /\ tp.drag_enabled /\ ~tp.drag_lock_enabled) =>
        \A i, j \in 1..tp.ntouches, g1, g2, g3, g4 \in Gaps :
            LET t0 == now
                t1 == t0 + g1
                t2 == t1 + g2
                t3 == t2 + g3
                t4 == t3 + g4
                a == Down(tp, i, t0)
                b == Up(a, i, t1)
                c == Down(b, j, t2)
                m == Moved(c, j, t3)
                f == Due(m, t4)
                e == Up(f, j, t4)
            IN  (~TimerDue(a, t1) /\ ~TimerDue(b, t2) /\ ~TimerDue(c, t3)) =>
                    /\ a.out = <<>>
                    /\ b.out = <<Pressed(tp, 1, t0)>>
                    /\ c.out = SecondBegin(t0, t1)
                    /\ m.out = <<>>
                    /\ m.state = "TAP_STATE_DRAGGING"
                    /\ f.out = <<>>
                    /\ f.state = "TAP_STATE_DRAGGING"
                    /\ BitIsSet(f.buttons_pressed, 1)
                    /\ e.out = <<Released(tp, 1, t4)>>
                    /\ e.state = "TAP_STATE_IDLE"

ReleaseThenPress(t0, t1) == <<Released(tp, 1, t1), Pressed(tp, 1, t0)>>

Nothing(t0, t1) == <<>>

\* C14 as stated: in a tap and drag the first end emits press(LEFT, t0), the second
\* touch's begin emits release(LEFT, t1) and then press(LEFT, t0) again, the
\* button stays held through the motion and the final end emits release(LEFT)
\* with its own time.
C14_SecondBeginReleasesAndPresses == TapAndDrag(ReleaseThenPress)

\* C14: in a tap and drag the first end emits press(LEFT, t0), the second touch's
\* begin emits nothing, the button stays held through the motion and the final
\* end emits release(LEFT) with its own time.
C14_TapAndDrag == TapAndDrag(Nothing)

\* The drag is on, after a tap at 0: the button pressed with time 0 is held, and
\* the end of the dragging touch releases it with the time of the end.
C14_Witness ==
    /\ tp.state = "TAP_STATE_DRAGGING"
    /\ tp.drag_enabled /\ ~tp.drag_lock_enabled
    /\ held = [n \in 1..3 |-> IF n = 1 THEN "BTN_LEFT" ELSE "none"]
    /\ now = Quantum
    /\ tp.saved_release_time = 0
    /\ \E j \in 1..tp.ntouches :
        /\ Active(tp) = {j}
        /\ Up(tp, j, now).out = <<[time |-> now, button |-> "BTN_LEFT",
                                   state |-> "RELEASED", nfingers |-> 1]>>
        /\ Up(tp, j, now).state = "TAP_STATE_IDLE"

\* The time between the end of a drag and the next touch, in units of 10 ms.
DragGaps == Gaps \cup {DEFAULT_DRAG_TIMEOUT_PERIOD - 1}

\* The touches that tp_tap_handle_state counts as fingers when they end.
Fingers(d) ==
    {i \in Active(d) : /\ d.touches[i].was_down
                       /\ ~d.touches[i].is_palm
                       /\ ~d.touches[i].is_thumb}

\* C15: with drag-lock enabled, the end of the dragging finger at time t emits
\* nothing, moves to DRAGGING_WAIT and arms the timer for t + 300 ms.  A touch that
\* begins before that deadline and ends without motion before its own timeout
\* passes DRAGGING_OR_TAP to IDLE with exactly one release(LEFT), carrying the
\* time of that end; with no touch, the timer fires at t + 300 ms and emits
\* exactly one release(LEFT) with the fire time, returning to IDLE.
C15_DragLock ==
    (Effective(tp) /\ tp.state = "TAP_STATE_DRAGGING" /\ tp.drag_lock_enabled) =>
        \A i \in Fingers(tp) :
            LET t == now
                a == Up(tp, i, t)
                fire == t + DEFAULT_DRAG_TIMEOUT_PERIOD
                c == Fired(a, fire)
            IN  /\ a.out = <<>>
                /\ a.state = "TAP_STATE_DRAGGING_WAIT"
                /\ a.timer = <<fire>>
                /\ c.out = <<Released(tp, 1, fire)>>
                /\ c.state = "TAP_STATE_IDLE"
                /\ \A j \in (1..tp.ntouches) \ Active(a), g \in DragGaps, h \in Gaps :
                        LET x == Down(a, j, t + g)
                            y == Up(x, j, t + g + h)
                        IN  (~TimerDue(a, t + g) /\ ~TimerDue(x, t + g + h)) =>
                                /\ x.out = <<>>
                                /\ x.state = "TAP_STATE_DRAGGING_OR_TAP"
                                /\ y.out = <<Released(tp, 1, t + g + h)>>
                                /\ y.state = "TAP_STATE_IDLE"

\* The dragging finger was lifted at 0 with drag-lock enabled: LEFT is still held
\* in DRAGGING_WAIT, the timer armed for 300 ms is due and releases it with the
\* fire time; a tap 10 ms before would have released it with the time of its end.
C15_Witness ==
    /\ tp.state = "TAP_STATE_DRAGGING_WAIT"
    /\ tp.drag_lock_enabled
    /\ held[1] = "BTN_LEFT"
    /\ Active(tp) = {}
    /\ tp.timer = <<DEFAULT_DRAG_TIMEOUT_PERIOD>>
    /\ now = DEFAULT_DRAG_TIMEOUT_PERIOD
    /\ TimerFires(tp, now).out = <<[time |-> now, button |-> "BTN_LEFT",
                                    state |-> "RELEASED", nfingers |-> 1]>>
    /\ TimerFires(tp, now).state = "TAP_STATE_IDLE"
    /\ LET x == Down(tp, 1, now - 1)
           y == Up(x, 1, now + 4)
       IN  /\ x.state = "TAP_STATE_DRAGGING_OR_TAP"
           /\ y.out = <<[time |-> now + 4, button |-> "BTN_LEFT",
                         state |-> "RELEASED", nfingers |-> 1]>>
           /\ y.state = "TAP_STATE_IDLE"

\* The states in which a touch is still a candidate for a tap.
MotionKills ==
    {"TAP_STATE_TOUCH", "TAP_STATE_HOLD", "TAP_STATE_TOUCH_2", "TAP_STATE_TOUCH_2_HOLD",
     "TAP_STATE_TOUCH_2_RELEASE", "TAP_STATE_TOUCH_3", "TAP_STATE_TOUCH_3_HOLD"}

\* C16: MOTION in TOUCH, HOLD, TOUCH_2, TOUCH_2_HOLD, TOUCH_2_RELEASE, TOUCH_3 or
\* TOUCH_3_HOLD moves to DEAD and emits nothing; in DEAD no FSM event emits a
\* button event, and an FSM event leaves DEAD only for IDLE and only when it is
\* RELEASE, PALM or PALM_UP with nfingers_down = 0.  A single touch on the touchpad
\* at rest that moves beyond the threshold and then ends emits nothing and passes
\* TOUCH, DEAD, IDLE.
C16_MotionIsDead ==
    /\ \A e \in Outcomes : \A n \in 1..Len(e.log) :
            LET l == e.log[n]
            IN  /\ (l.event = "TAP_EVENT_MOTION" /\ l.state \in MotionKills) =>
                        (l.next = "TAP_STATE_DEAD" /\ l.emitted = 0)
                /\ l.state = "TAP_STATE_DEAD" =>
                        /\ l.emitted = 0
                        /\ l.next \in {"TAP_STATE_DEAD", "TAP_STATE_IDLE"}
                        /\ l.next = "TAP_STATE_IDLE" =>
                                /\ l.event \in {"TAP_EVENT_RELEASE", "TAP_EVENT_PALM",
                                                 "TAP_EVENT_PALM_UP"}
                                /\ l.nfingers = 0
    /\ AtRest(tp) =>
            \A i \in 1..tp.ntouches, g, h \in Gaps :
                LET a == Down(tp, i, now)
                    m == Moved(a, i, now + g)
                    e == Up(m, i, now + g + h)
                IN  ~TimerDue(a, now + g) =>
                        /\ a.out = <<>> /\ a.state = "TAP_STATE_TOUCH"
                        /\ m.out = <<>> /\ m.state = "TAP_STATE_DEAD"
                        /\ e.out = <<>> /\ e.state = "TAP_STATE_IDLE"

\* A single touch is down in TOUCH: its motion beyond the threshold is the MOTION
\* that leaves TOUCH for DEAD and its end the RELEASE that leaves DEAD for IDLE,
\* both silent; a touch beginning in DEAD stays in DEAD.
C16_Witness ==
    /\ tp.state = "TAP_STATE_TOUCH"
    /\ held = [n \in 1..3 |-> "none"]
    /\ \E i \in 1..tp.ntouches :
        /\ Active(tp) = {i}
        /\ LET m == Moved(tp, i, now)
               e == Up(m, i, now)
           IN  /\ m.out = <<>>
               /\ m.state = "TAP_STATE_DEAD"
               /\ Len(m.log) = 1
               /\ m.log[1].event = "TAP_EVENT_MOTION"
               /\ m.log[1].state = "TAP_STATE_TOUCH"
               /\ m.touches[i].tap_state = "TAP_TOUCH_STATE_DEAD"
               /\ e.out = <<>>
               /\ e.state = "TAP_STATE_IDLE"
               /\ Len(e.log) = 1
               /\ e.log[1].event = "TAP_EVENT_RELEASE"
               /\ e.log[1].state = "TAP_STATE_DEAD"
               /\ e.log[1].nfingers = 0
               /\ \E j \in (1..tp.ntouches) \ {i} :
                    /\ Down(m, j, now).state = "TAP_STATE_DEAD"
                    /\ Down(m, j, now).log[1].event = "TAP_EVENT_TOUCH"

\* C17: on a clickpad with tapping enabled, a tick with a queued button press
\* delivers BUTTON once, before any touch is processed; right after it the state
\* is DEAD and buttons_pressed is 0 whatever the state was, and a held button 1 is
\* released exactly once by that event.  On a touchpad that is not a clickpad the
\* queued button press delivers no BUTTON and changes nothing in the tick.
C17_ClickpadButtonKills ==
    \A k \in FrameInputs(tp) :
        LET e == HandleState(tp, k, TRUE, now).d
        IN  /\ (tp.is_clickpad /\ Effective(tp)) =>
                    /\ Len(e.log) >= 1
                    /\ e.log[1].event = "TAP_EVENT_BUTTON"
                    /\ e.log[1].state = tp.state
                    /\ e.log[1].next = "TAP_STATE_DEAD"
                    /\ e.log[1].buttons = 0
                    /\ \A n \in 2..Len(e.log) : e.log[n].event # "TAP_EVENT_BUTTON"
                    /\ IF held[1] # "none"
                       THEN /\ e.log[1].emitted = 1
                            /\ e.out[1].state = "RELEASED"
                            /\ e.out[1].nfingers = 1
                            /\ e.out[1].button = held[1]
                       ELSE e.log[1].emitted = 0
            /\ ~tp.is_clickpad =>
                    /\ HandleState(tp, k, TRUE, now) = HandleState(tp, k, FALSE, now)
                    /\ \A n \in 1..Len(e.log) : e.log[n].event # "TAP_EVENT_BUTTON"

\* A drag is on on the clickpad and the button is pressed in a tick in which a
\* touch also changes: BUTTON comes first, releases LEFT and leaves DEAD.
C17_Witness ==
    /\ tp.is_clickpad
    /\ tp.state = "TAP_STATE_DRAGGING"
    /\ held[1] = "BTN_LEFT"
    /\ \E k \in FrameInputs(tp) :
        LET e == HandleState(tp, k, TRUE, now).d
        IN  /\ Len(e.log) = 2
            /\ e.log[1].event = "TAP_EVENT_BUTTON"
            /\ e.log[1].next = "TAP_STATE_DEAD"
            /\ e.log[1].emitted = 1
            /\ e.log[2].event = "TAP_EVENT_RELEASE"
            /\ e.out = <<[time |-> now, button |-> "BTN_LEFT", state |-> "RELEASED",
                          nfingers |-> 1]>>
            /\ e.buttons_pressed = 0

\* The time a step waits after the one before it: a little, just under the tap
\* timeout, and the tap timeout.
Waits == {1, DEFAULT_TAP_TIMEOUT_PERIOD - 1, DEFAULT_TAP_TIMEOUT_PERIOD}

\* Touch i is reclassified as a palm at time t.
Palmed(d, i, t) == AfterFrame(Fresh(d), OneSlot(i, "palm"), FALSE, t)

HasPress(out) == \E n \in 1..Len(out) : out[n].state = "PRESSED"

\* The states in which the end of a touch makes the tap.
TapWindow == {"TAP_STATE_TOUCH", "TAP_STATE_TOUCH_2_RELEASE", "TAP_STATE_TOUCH_3"}

\* C18 as stated: whenever a press is emitted because a touch ended, that touch was
\* down for less than 180 ms, whatever the touches, palm reclassifications and
\* timer re-arms before it.  Two touches begin on the touchpad at rest, at ta and
\* tb; at tc one of them ends or becomes a palm, at td the other ends; the timer
\* fires as soon as its deadline has passed.
C18_TapShorterThanTimeout ==
    AtRest(tp) =>
        \A i, j \in 1..tp.ntouches, g1, g2, g3 \in Waits, palm, first \in BOOLEAN :
            LET ta == now
                tb == ta + g1
                tc == tb + g2
                td == tc + g3
                who == IF first THEN i ELSE j
                other == IF first THEN j ELSE i
                a == Down(tp, i, ta)
                b == Down(Due(a, tb), j, tb)
                c == IF palm THEN Palmed(Due(b, tc), who, tc) ELSE Up(Due(b, tc), who, tc)
                e == Up(Due(c, td), other, td)
            IN  (i # j /\ HasPress(e.out)) => td - (IF first THEN tb ELSE ta) < DEFAULT_TAP_TIMEOUT_PERIOD

\* C18: a press emitted because a touch ended comes while the timer is armed and
\* before its deadline, less than 180 ms after the event that armed it last: the
\* touch's own begin for a single touch on the touchpad at rest, which so taps
\* exactly when it was down for less than 180 ms; the step before, a begin, an end
\* or a palm reclassification, with two or three touches.  Until the device is
\* removed the state is TOUCH, TOUCH_2_RELEASE or TOUCH_3 only with the timer
\* armed.  The timer fires as soon as its deadline has passed.
C18_TapBeforeDeadline ==
    /\ (~removed /\ tp.state \in TapWindow) => tp.timer # <<>>
    /\ AtRest(tp) =>
        /\ \A i \in 1..tp.ntouches, g \in Gaps \cup Waits :
                LET a == Down(tp, i, now)
                    e == Up(Due(a, now + g), i, now + g)
                IN  HasPress(e.out) <=> g < DEFAULT_TAP_TIMEOUT_PERIOD
        /\ \A i, j \in 1..tp.ntouches, g1, g2, g3 \in Waits, palm, first \in BOOLEAN :
                LET ta == now
                    tb == ta + g1
                    tc == tb + g2
                    td == tc + g3
                    who == IF first THEN i ELSE j
                    other == IF first THEN j ELSE i
                    a == Down(tp, i, ta)
                    b == Down(Due(a, tb), j, tb)
                    c == IF palm THEN Palmed(Due(b, tc), who, tc)
                                 ELSE Up(Due(b, tc), who, tc)
                    f == Due(c, td)
                    e == Up(f, other, td)
                IN  (i # j /\ HasPress(e.out)) =>
                        /\ f.state \in TapWindow
                        /\ f.timer = <<tc + DEFAULT_TAP_TIMEOUT_PERIOD>>
                        /\ td < tc + DEFAULT_TAP_TIMEOUT_PERIOD
                        /\ ~HasPress(a.out) /\ ~HasPress(b.out) /\ ~HasPress(c.out)
        /\ \A g1, g2 \in Waits :
                (tp.ntouches >= 3) =>
                    LET t3 == now + g1
                        td == t3 + g2
                        c == Down(Down(Down(tp, 1, now), 2, now), 3, t3)
                        f == Due(c, td)
                        e == Up(f, 1, td)
                    IN  HasPress(e.out) =>
                            /\ f.state = "TAP_STATE_TOUCH_3"
                            /\ f.timer = <<t3 + DEFAULT_TAP_TIMEOUT_PERIOD>>
                            /\ td < t3 + DEFAULT_TAP_TIMEOUT_PERIOD

\* Two touches are down in TOUCH_2 since 0.  The first ends 170 ms later, which
\* re-arms the timer, and the second 170 ms after that: its end taps although it
\* was down for 340 ms; 10 ms later the timer would have fired and nothing tapped.
C18_Witness ==
    /\ tp.state = "TAP_STATE_TOUCH_2"
    /\ now = 0
    /\ tp.timer = <<DEFAULT_TAP_TIMEOUT_PERIOD>>
    /\ \E i, j \in 1..tp.ntouches :
        /\ i # j
        /\ Fingers(tp) = {i, j}
        /\ LET c == Up(tp, i, 17)
               e == Up(Due(c, 34), j, 34)
               late == Up(Due(c, 35), j, 35)
           IN  /\ c.state = "TAP_STATE_TOUCH_2_RELEASE"
               /\ c.timer = <<35>>
               /\ e.out = <<Pressed(tp, 2, 0), Released(tp, 2, 17)>>
               /\ late.out = <<>>

\* C19: RELEASE in TOUCH_3 always moves to TOUCH_2_HOLD; it emits
\* press(3 fingers, saved_press_time) and then release(3 fingers, time) exactly
\* when the per-touch state of the touch that ends is still TOUCH, and nothing when
\* that touch was made DEAD before.
C19_Touch3ReleaseTapsIfTouchAlive ==
    \A e \in TickResults : \A n \in 1..Len(e.log) :
        LET l == e.log[n]
        IN  (l.event = "TAP_EVENT_RELEASE" /\ l.state = "TAP_STATE_TOUCH_3") =>
                /\ l.next = "TAP_STATE_TOUCH_2_HOLD"
                /\ l.emitted = IF l.tap_state = "TAP_TOUCH_STATE_TOUCH" THEN 2 ELSE 0
                /\ (n = 1 /\ l.emitted = 2) =>
                        /\ l.tap_state = tp.touches[l.touch].tap_state
                        /\ SubSeq(e.out, 1, 2)
                            = <<Pressed(tp, 3, tp.saved_press_time), Released(tp, 3, now)>>

\* TOUCH_3 with one finger whose per-touch state is DEAD and one whose state is
\* TOUCH: the end of the first moves to TOUCH_2_HOLD silently, the end of the
\* second moves there with the press and the release for three fingers.
C19_Witness ==
    /\ tp.state = "TAP_STATE_TOUCH_3"
    /\ \E i, j \in Fingers(tp) :
        /\ tp.touches[i].tap_state = "TAP_TOUCH_STATE_DEAD"
        /\ tp.touches[j].tap_state = "TAP_TOUCH_STATE_TOUCH"
        /\ Up(tp, i, now).out = <<>>
        /\ Up(tp, i, now).state = "TAP_STATE_TOUCH_2_HOLD"
        /\ Up(tp, i, now).log[1].event = "TAP_EVENT_RELEASE"
        /\ Up(tp, j, now).out = <<Pressed(tp, 3, tp.saved_press_time), Released(tp, 3, now)>>
        /\ Up(tp, j, now).state = "TAP_STATE_TOUCH_2_HOLD"

\* The most taps in a row that are run.
MaxTaps == 3

RECURSIVE TapRun(_, _, _, _, _, _, _)
\* k single-finger taps from dispatch d, the first beginning at time t in slot i
\* and the slots alternating with j; each touch is down for g and the next begins
\* h after the end.  For each tap: its begin and end times and the dispatch after
\* its begin and after its end.
TapRun(d, i, j, k, t, g, h) ==
    IF k = 0
    THEN <<>>
    ELSE LET a == Down(d, i, t)
             b == Up(a, i, t + g)
         IN  <<[begin |-> t, end |-> t + g, down |-> a, up |-> b]>>
             \o TapRun(b, j, i, k - 1, t + g + h, g, h)

\* C20: N single-finger taps in a row on the touchpad at rest with drag enabled,
\* each beginning before the timer of the tap before fires and each ending before
\* its own timer fires, without motion, emit N presses and N releases of button 1
\* in strict alternation: the first end emits the first press; the end of tap
\* k >= 2 emits the release of tap k - 1, with the time tap k - 1 ended, and then
\* the press of tap k, with the time tap k began; the begins emit nothing; the
\* last release is emitted when the timer fires 180 ms after the last end.
C20_MultiTap ==
    (AtRest(tp) /\ tp.drag_enabled) =>
        \A i, j \in 1..tp.ntouches, N \in 1..MaxTaps, g, h \in Gaps :
            LET run == TapRun(tp, i, j, N, now, g, h)
                last == Fired(run[N].up, run[N].end + DEFAULT_TAP_TIMEOUT_PERIOD)
            IN  (/\ \A k \in 1..N : ~TimerDue(run[k].down, run[k].end)
                 /\ \A k \in 2..N : ~TimerDue(run[k - 1].up, run[k].begin)) =>
                    /\ \A k \in 1..N :
                            /\ run[k].down.out = <<>>
                            /\ run[k].up.state = "TAP_STATE_TAPPED"
                            /\ run[k].up.timer = <<run[k].end + DEFAULT_TAP_TIMEOUT_PERIOD>>
                            /\ run[k].up.out =
                                    IF k = 1
                                    THEN <<Pressed(tp, 1, run[1].begin)>>
                                    ELSE <<Released(tp, 1, run[k - 1].end),
                                           Pressed(tp, 1, run[k].begin)>>
                    /\ last.out = <<Released(tp, 1, run[N].end)>>
                    /\ last.state = "TAP_STATE_IDLE"

\* The touch of a second tap is down, begun at 0 right after a first tap whose
\* press is still open: its end at 50 ms releases LEFT with the time the first tap
\* ended and presses it again with the time the second began, and the timer
\* releases it at 230 ms with the time the second ended.
C20_Witness ==
    /\ tp.state = "TAP_STATE_DRAGGING_OR_DOUBLETAP"
    /\ held[1] = "BTN_LEFT"
    /\ now = 0
    /\ tp.timer = <<DEFAULT_TAP_TIMEOUT_PERIOD>>
    /\ \E i \in 1..tp.ntouches :
        /\ Fingers(tp) = {i}
        /\ LET b == Up(tp, i, 5)
               c == Fired(b, 5 + DEFAULT_TAP_TIMEOUT_PERIOD)
           IN  /\ b.out = <<Released(tp, 1, 0), Pressed(tp, 1, 0)>>
               /\ b.state = "TAP_STATE_TAPPED"
               /\ b.timer = <<5 + DEFAULT_TAP_TIMEOUT_PERIOD>>
               /\ c.out = <<Released(tp, 1, 5)>>
               /\ c.state = "TAP_STATE_IDLE"

\* C21: after every FSM event that tp_tap_handle_event processes, the timer is not
\* armed if the state it leaves is IDLE or DEAD: for the events that the operations
\* deliver, and for every event and touch applied to the state as it is, among them
\* TOUCH in TOUCH_3_HOLD, which arms the timer on its way into DEAD, and BUTTON in
\* TOUCH and RELEASE in TOUCH_2_RELEASE, which do not cancel it themselves.
C21_TimerCancelledInIdleAndDead ==
    /\ \A e \in Outcomes : \A n \in 1..Len(e.log) :
            e.log[n].next \in {"TAP_STATE_IDLE", "TAP_STATE_DEAD"} => ~e.log[n].armed
    /\ \A t \in Slots, event \in TapEvents :
            LET e == tp_tap_handle_event(Fresh(tp), t, event, now)
            IN  e.state \in {"TAP_STATE_IDLE", "TAP_STATE_DEAD"} => e.timer = <<>>

\* Three touches are held in TOUCH_3_HOLD: a TOUCH event arms the timer in its
\* handler and leaves DEAD, and the timer is not armed after the event.
C21_Witness ==
    /\ tp.state = "TAP_STATE_TOUCH_3_HOLD"
    /\ tp.timer = <<>>
    /\ tp_tap_touch3_hold_handle_event(tp, 1, "TAP_EVENT_TOUCH", now).timer
        = <<now + DEFAULT_TAP_TIMEOUT_PERIOD>>
    /\ tp_tap_handle_event(tp, 1, "TAP_EVENT_TOUCH", now).state = "TAP_STATE_DEAD"
    /\ tp_tap_handle_event(tp, 1, "TAP_EVENT_TOUCH", now).timer = <<>>

\* Touch i begins at time t with the early palm-tap predicate firing, no button
\* pressed.
PalmTapDown(d, i, t) == AfterFrame(Fresh(d), OneSlot(i, "begin_palmtap"), FALSE, t)

\* The frames in which the other touches change and touch i does not.
FramesBeside(d, i) == {k \in FrameInputs(d) : k[i] = "none"}

\* C22: a touch that begins with the early palm-tap predicate firing gets TOUCH and
\* then MOTION in the tick it begins, and no button press is emitted in that tick
\* nor in the tick it ends, whatever the state it began in and whatever the other
\* touches do in a frame in between.
C22_PalmTapNeverClicks ==
    Effective(tp) =>
        \A i \in (1..tp.ntouches) \ Active(tp) :
            LET a == PalmTapDown(tp, i, now)
            IN  /\ Len(a.log) = 2
                /\ a.log[1].touch = i /\ a.log[1].event = "TAP_EVENT_TOUCH"
                /\ a.log[2].touch = i /\ a.log[2].event = "TAP_EVENT_MOTION"
                /\ ~HasPress(a.out)
                /\ ~HasPress(Up(a, i, now).out)
                /\ \A k \in FramesBeside(a, i) :
                        ~HasPress(Up(AfterFrame(Fresh(a), k, FALSE, now), i, now).out)

\* C23: no tick, timer callback or lifecycle call delivers an event in a state whose
\* handler flags it as a bug: MOTION or THUMB in IDLE; MOTION, RELEASE or THUMB in
\* TAPPED.
C23_NoBugFlaggedEvent ==
    \A e \in Outcomes : \A n \in 1..Len(e.log) :
        LET l == e.log[n]
        IN  /\ l.state = "TAP_STATE_IDLE" =>
                    l.event \notin {"TAP_EVENT_MOTION", "TAP_EVENT_THUMB"}
            /\ l.state = "TAP_STATE_TAPPED" =>
                    l.event \notin {"TAP_EVENT_MOTION", "TAP_EVENT_RELEASE",
                                    "TAP_EVENT_THUMB"}

\* C24: a held button is released without new touch input: until the device is
\* removed, whenever the state is TAPPED or DRAGGING_WAIT the timer is armed, and
\* when it fires with no touch beginning in between, button 1 is released and the
\* state returns to IDLE.
C24_HeldButtonHasTimer ==
    (~removed /\ tp.state \in {"TAP_STATE_TAPPED", "TAP_STATE_DRAGGING_WAIT"}) =>
        /\ tp.timer # <<>>
        /\ LET e == Fired(tp, tp.timer[1])
           IN  /\ e.state = "TAP_STATE_IDLE"
               /\ Len(e.out) = 1
               /\ e.out[1] = Released(tp, 1, e.out[1].time)
               /\ ~BitIsSet(e.buttons_pressed, 1)

\* The states in which the tap button is held down.
HoldingStates ==
    {"TAP_STATE_TAPPED", "TAP_STATE_DRAGGING_OR_DOUBLETAP", "TAP_STATE_DRAGGING",
     "TAP_STATE_DRAGGING_WAIT", "TAP_STATE_DRAGGING_OR_TAP", "TAP_STATE_DRAGGING_2"}

\* C25: after every FSM event, timer callback and lifecycle call, bit 1 of
\* buttons_pressed is set exactly when the state is one of TAPPED,
\* DRAGGING_OR_DOUBLETAP, DRAGGING, DRAGGING_WAIT, DRAGGING_OR_TAP, DRAGGING_2, and
\* bits 2 and 3 are clear; so tp_tap_dragging() implies that button 1 is held.
C25_ButtonOneHeldIffHoldingState ==
    /\ \A e \in Outcomes :
            /\ \A n \in 1..Len(e.log) :
                    /\ BitIsSet(e.log[n].buttons, 1) <=> e.log[n].next \in HoldingStates
                    /\ ~BitIsSet(e.log[n].buttons, 2)
                    /\ ~BitIsSet(e.log[n].buttons, 3)
            /\ BitIsSet(e.buttons_pressed, 1) <=> e.state \in HoldingStates
            /\ ~BitIsSet(e.buttons_pressed, 2)
            /\ ~BitIsSet(e.buttons_pressed, 3)
            /\ tp_tap_dragging(e) => BitIsSet(e.buttons_pressed, 1)
    /\ BitIsSet(tp.buttons_pressed, 1) <=> tp.state \in HoldingStates
    /\ tp_tap_dragging(tp) => BitIsSet(tp.buttons_pressed, 1)

C25_Witness ==
    /\ tp.state = "TAP_STATE_DRAGGING_2"
    /\ tp.buttons_pressed = Bit(1)
    /\ Active(tp) = {1, 2}
    /\ tp_tap_dragging(tp)
    /\ LET e == Down(tp, 3, now)
       IN  /\ Len(e.log) = 1
           /\ e.log[1].event = "TAP_EVENT_TOUCH"
           /\ e.log[1].next = "TAP_STATE_DEAD"
           /\ e.log[1].buttons = 0
           /\ e.out = <<Released(tp, 1, now)>>

\* C26: DEAD does not outlive the touches: at the end of a tick after which no touch
\* is active the state is not DEAD, and a tap made then is recognised: its end
\* emits a press.
C26_DeadEndsWithTouches ==
    \A e \in TickResults :
        Active(e) = {} =>
            /\ e.state # "TAP_STATE_DEAD"
            /\ (Effective(e) /\ e.state \notin HoldingStates)
                    => HasPress(Up(Down(e, 1, now), 1, now).out)

\* The states entered only with drag lock enabled.
LockStates == {"TAP_STATE_DRAGGING_WAIT", "TAP_STATE_DRAGGING_OR_TAP"}

\* C27: while drag stays disabled, no event, timer callback or call leaves the
\* states without a held button: TAPPED, DRAGGING_OR_DOUBLETAP, DRAGGING,
\* DRAGGING_WAIT, DRAGGING_OR_TAP and DRAGGING_2 are not entered and
\* buttons_pressed is 0 after every event, each press being released in the same
\* event; while drag lock stays disabled, DRAGGING_WAIT and DRAGGING_OR_TAP are not
\* entered.
C27_ConfigGatesDragStates ==
    /\ tp_init_tap(Touchpad, TRUE).state \notin HoldingStates
    /\ (~tp.drag_enabled /\ tp.state \notin HoldingStates) =>
            \A e \in Outcomes :
                ~e.drag_enabled =>
                    /\ e.state \notin HoldingStates
                    /\ e.buttons_pressed = 0
                    /\ \A n \in 1..Len(e.log) :
                            /\ e.log[n].next \notin HoldingStates
                            /\ e.log[n].buttons = 0
                            /\ e.log[n].emitted \in {0, 2}
    /\ (~tp.drag_lock_enabled /\ tp.state \notin LockStates) =>
            \A e \in Outcomes :
                ~e.drag_lock_enabled =>
                    /\ e.state \notin LockStates
                    /\ \A n \in 1..Len(e.log) : e.log[n].next \notin LockStates

C27_Witness ==
    /\ ~tp.drag_enabled
    /\ tp.state = "TAP_STATE_TOUCH"
    /\ Active(tp) = {1}
    /\ LET e == Up(tp, 1, now)
       IN  /\ Len(e.log) = 1
           /\ e.log[1].event = "TAP_EVENT_RELEASE"
           /\ e.log[1].next = "TAP_STATE_IDLE"
           /\ e.log[1].buttons = 0
           /\ e.out = <<Pressed(tp, 1, tp.saved_press_time), Released(tp, 1, now)>>

====
